---- MODULE Spec2Model ----
(***************************************************************************)
(* Concept matching and query templating of the solidair analyzer: the     *)
(* embedding matcher (cache, offline and remote strategy, cosine scoring), *)
(* the query template engine and the analyze-smart pipeline.               *)
(*                                                                         *)
(* Strings are sequences of one-character strings, so that a byte of an    *)
(* identifier can be read and a placeholder can be searched for.  A vector *)
(* is a sequence of integers; the offline vector of a name holds the byte  *)
(* values, i.e. the code's values times 255 (cosine similarity does not    *)
(* depend on the scale).  A similarity score dot/sqrt(nn) is the record    *)
(* [dot, nn] and scores are compared exactly by cross multiplication.      *)
(***************************************************************************)
EXTENDS Integers, Sequences, FiniteSets, TLC

(***************************************************************************)
(* Bounds of the model.                                                    *)
(***************************************************************************)
\* longest list of variables handed to MatchVariables
MaxVars == 2

(***************************************************************************)
(* Characters and strings.                                                 *)
(***************************************************************************)
\* byte value of a character (ASCII)
Byte(ch) ==
    CASE ch = "A" -> 65
      [] ch = "B" -> 66
      [] ch = "C" -> 67
      [] ch = "a" -> 97
      [] ch = "b" -> 98
      [] ch = "z" -> 122
      [] ch = "$" -> 36
      [] ch = "{" -> 123
      [] ch = "}" -> 125
      [] ch = "(" -> 40
      [] ch = ")" -> 41

\* the sequences over S of length at most n
SeqUpTo(S, n) == UNION {[1..k -> S] : k \in 0..n}

\* the elements of a sequence
Range(s) == {s[i] : i \in DOMAIN s}

(***************************************************************************)
(* Cosine similarity (embedding package).                                  *)
(***************************************************************************)
RECURSIVE Gcd(_, _)
Gcd(x, y) == IF y = 0 THEN x ELSE Gcd(y, x % y)

RECURSIVE Dot(_, _)
\* sum of a[i] * b[i] over the indices of a (the loop of CosineSimilarity)
Dot(a, b) == IF a = <<>> THEN 0 ELSE Head(a) * Head(b) + Dot(Tail(a), Tail(b))

\* the score 0
ZeroScore == [dot |-> 0, nn |-> 1]

\* s >= t for scores s = s.dot/sqrt(s.nn), t = t.dot/sqrt(t.nn)
ScoreGE(s, t) ==
    LET g  == Gcd(s.nn, t.nn)
        l  == s.dot * s.dot * (t.nn \div g)
        r  == t.dot * t.dot * (s.nn \div g)
    IN  IF s.dot >= 0 /\ t.dot >= 0 THEN l >= r
        ELSE IF s.dot >= 0 THEN TRUE
        ELSE IF t.dot >= 0 THEN FALSE
        ELSE l <= r

\* s > t
ScoreGT(s, t) == ~ScoreGE(t, s)

\* mutant of CosineSimilarity: vectors of different lengths are compared over the
\* length of the shorter one
CosineSimilarityNoLengthCheck(a, b) ==
    IF Len(a) = 0 \/ Len(b) = 0 THEN ZeroScore
    ELSE LET n     == IF Len(a) < Len(b) THEN Len(a) ELSE Len(b)
             pa    == SubSeq(a, 1, n)
             pb    == SubSeq(b, 1, n)
             normA == Dot(pa, pa)
             normB == Dot(pb, pb)
         IN  IF normA = 0 \/ normB = 0 THEN ZeroScore
             ELSE [dot |-> Dot(pa, pb), nn |-> normA * normB]

\* mutant of CosineSimilarity: the dot product is divided by the norm of a alone
CosineSimilarityOneNorm(a, b) ==
    IF Len(a) = 0 \/ Len(b) = 0 THEN ZeroScore
    ELSE IF Len(a) # Len(b) THEN ZeroScore
    ELSE LET normA == Dot(a, a)
             normB == Dot(b, b)
         IN  IF normA = 0 \/ normB = 0 THEN ZeroScore
             ELSE [dot |-> Dot(a, b), nn |-> normA * normA]

\* dotProduct / (normA * normB), 0 for empty, unequal-length or zero vectors
CosineSimilarity(a, b) ==
    IF Len(a) = 0 \/ Len(b) = 0 THEN ZeroScore
    ELSE IF Len(a) # Len(b) THEN ZeroScore
    ELSE LET normA == Dot(a, a)
             normB == Dot(b, b)
         IN  IF normA = 0 \/ normB = 0 THEN ZeroScore
             ELSE [dot |-> Dot(a, b), nn |-> normA * normB]

(***************************************************************************)
(* Embedding matcher (embedding package).                                  *)
(* A variable is [Name, LineNumber]; a concept is [Name, Embedding]; the   *)
(* description and synonyms of a concept are read by no code modelled here.*)
(***************************************************************************)
\* length of the offline vector: make([]float32, 3)
OfflineDim == 3

\* the map with no key
EmptyMap == [k \in {} |-> <<>>]

\* SimilarityThreshold of a new matcher, 0.7 = 7/sqrt(100)
DefaultThreshold == [dot |-> 7, nn |-> 100]

\* NewEmbeddingMatcher: client is an API key or "nil"
NewEmbeddingMatcher(client, concepts, offline) ==
    [OpenAI |-> client,
     Concepts |-> concepts,
     Cache |-> EmptyMap,
     SimilarityThreshold |-> DefaultThreshold,
     Offline |-> offline]

\* getOfflineEmbedding: vector[i] = name[i % len(name)] (/ 255) for i < len(name), else 0
getOfflineEmbedding(name) ==
    [i \in 1..OfflineDim |->
        IF i - 1 < Len(name) THEN Byte(name[((i - 1) % Len(name)) + 1]) ELSE 0]

\* OpenAIClient.GetEmbedding on the service's answer to one request:
\* an error when the request fails or no data comes back, else the first vector
GetEmbedding(answer) ==
    IF answer.status # "ok" THEN [err |-> TRUE, Vector |-> <<>>]
    ELSE IF Len(answer.data) = 0 THEN [err |-> TRUE, Vector |-> <<>>]
    ELSE [err |-> FALSE, Vector |-> answer.data[1]]

\* mutant of GetVariableEmbedding: the offline flag is not looked at
GetVariableEmbeddingNoOffline(m, variable, answer) ==
    IF variable.Name \in DOMAIN m.Cache
    THEN [Vector |-> m.Cache[variable.Name], err |-> FALSE, Cache |-> m.Cache,
          invoked |-> "none"]
    ELSE LET r == GetEmbedding(answer)
         IN  IF r.err
             THEN [Vector |-> <<>>, err |-> TRUE, Cache |-> m.Cache,
                   invoked |-> "remote"]
             ELSE [Vector |-> r.Vector, err |-> FALSE,
                   Cache |-> (variable.Name :> r.Vector) @@ m.Cache,
                   invoked |-> "remote"]

\* mutant of GetVariableEmbedding: the cache is not looked at before the strategy
\* is invoked
GetVariableEmbeddingNoCacheCheck(m, variable, answer) ==
    IF m.Offline
    THEN [Vector |-> getOfflineEmbedding(variable.Name), err |-> FALSE,
          Cache |-> m.Cache, invoked |-> "offline"]
    ELSE LET r == GetEmbedding(answer)
         IN  IF r.err
             THEN [Vector |-> <<>>, err |-> TRUE, Cache |-> m.Cache,
                   invoked |-> "remote"]
             ELSE [Vector |-> r.Vector, err |-> FALSE,
                   Cache |-> (variable.Name :> r.Vector) @@ m.Cache,
                   invoked |-> "remote"]

\* mutant of GetVariableEmbedding: a failed request is cached as an empty vector
GetVariableEmbeddingCachesFailure(m, variable, answer) ==
    IF variable.Name \in DOMAIN m.Cache
    THEN [Vector |-> m.Cache[variable.Name], err |-> FALSE, Cache |-> m.Cache,
          invoked |-> "none"]
    ELSE IF m.Offline
    THEN [Vector |-> getOfflineEmbedding(variable.Name), err |-> FALSE,
          Cache |-> m.Cache, invoked |-> "offline"]
    ELSE LET r == GetEmbedding(answer)
         IN  IF r.err
             THEN [Vector |-> <<>>, err |-> TRUE,
                   Cache |-> (variable.Name :> <<>>) @@ m.Cache,
                   invoked |-> "remote"]
             ELSE [Vector |-> r.Vector, err |-> FALSE,
                   Cache |-> (variable.Name :> r.Vector) @@ m.Cache,
                   invoked |-> "remote"]

\* GetVariableEmbedding: the returned vector, the error, the cache afterwards and
\* the strategy invoked by the call ("none" on a cache hit)
GetVariableEmbedding(m, variable, answer) ==
    IF variable.Name \in DOMAIN m.Cache
    THEN [Vector |-> m.Cache[variable.Name], err |-> FALSE, Cache |-> m.Cache,
          invoked |-> "none"]
    ELSE IF m.Offline
    THEN [Vector |-> getOfflineEmbedding(variable.Name), err |-> FALSE,
          Cache |-> m.Cache, invoked |-> "offline"]
    ELSE LET r == GetEmbedding(answer)
         IN  IF r.err
             THEN [Vector |-> <<>>, err |-> TRUE, Cache |-> m.Cache,
                   invoked |-> "remote"]
             ELSE [Vector |-> r.Vector, err |-> FALSE,
                   Cache |-> (variable.Name :> r.Vector) @@ m.Cache,
                   invoked |-> "remote"]

RECURSIVE InsertMatch(_, _)
\* insertion step of the sort: x moves left past every element with a smaller score
InsertMatch(sorted, x) ==
    IF sorted = <<>> THEN <<x>>
    ELSE LET last == sorted[Len(sorted)]
         IN  IF ScoreGT(x.SimilarityScore, last.SimilarityScore)
             THEN Append(InsertMatch(SubSeq(sorted, 1, Len(sorted) - 1), x), last)
             ELSE Append(sorted, x)

RECURSIVE SortMatches(_)
\* sort.Slice by SimilarityScore, highest first (insertion sort on short slices)
SortMatches(matches) ==
    IF matches = <<>> THEN <<>>
    ELSE InsertMatch(SortMatches(SubSeq(matches, 1, Len(matches) - 1)),
                     matches[Len(matches)])

RECURSIVE ConceptLoopFirstMatch(_, _, _, _)
\* mutant of ConceptLoop: the loop stops at the first concept that matches
ConceptLoopFirstMatch(concepts, variable, varEmbedding, threshold) ==
    IF concepts = <<>> THEN <<>>
    ELSE LET concept    == Head(concepts)
             similarity == CosineSimilarity(varEmbedding, concept.Embedding)
         IN  IF ScoreGE(similarity, threshold)
             THEN <<[Variable |-> variable, Concept |-> concept.Name,
                     SimilarityScore |-> similarity]>>
             ELSE ConceptLoopFirstMatch(Tail(concepts), variable, varEmbedding, threshold)

RECURSIVE ConceptLoopNoThreshold(_, _, _, _)
\* mutant of ConceptLoop: every concept is a match, whatever its similarity
ConceptLoopNoThreshold(concepts, variable, varEmbedding, threshold) ==
    IF concepts = <<>> THEN <<>>
    ELSE LET concept    == Head(concepts)
             similarity == CosineSimilarity(varEmbedding, concept.Embedding)
         IN  <<[Variable |-> variable, Concept |-> concept.Name,
                SimilarityScore |-> similarity]>>
             \o ConceptLoopNoThreshold(Tail(concepts), variable, varEmbedding, threshold)

RECURSIVE ConceptLoop(_, _, _, _)
\* the loop of MatchVariable over m.Concepts
ConceptLoop(concepts, variable, varEmbedding, threshold) ==
    IF concepts = <<>> THEN <<>>
    ELSE LET concept    == Head(concepts)
             similarity == CosineSimilarity(varEmbedding, concept.Embedding)
             rest       == ConceptLoop(Tail(concepts), variable, varEmbedding, threshold)
         IN  IF ScoreGE(similarity, threshold)
             THEN <<[Variable |-> variable, Concept |-> concept.Name,
                     SimilarityScore |-> similarity]>> \o rest
             ELSE rest

\* MatchVariable: the matches of one variable, the error, the cache afterwards
MatchVariable(m, variable, answer) ==
    LET e == GetVariableEmbedding(m, variable, answer)
    IN  IF e.err
        THEN [matches |-> <<>>, err |-> TRUE, Cache |-> e.Cache, invoked |-> e.invoked]
        ELSE [matches |-> SortMatches(ConceptLoop(m.Concepts, variable, e.Vector,
                                                  m.SimilarityThreshold)),
              err |-> FALSE, Cache |-> e.Cache, invoked |-> e.invoked]

RECURSIVE GroupMatchesPrepend(_, _)
\* mutant of GroupMatches: a match is put at the front of the list of its concept
GroupMatchesPrepend(result, matches) ==
    IF matches = <<>> THEN result
    ELSE LET match == Head(matches)
             next  == IF match.Concept \in DOMAIN result
                      THEN [result EXCEPT ![match.Concept] = <<match>> \o @]
                      ELSE (match.Concept :> <<match>>) @@ result
         IN  GroupMatchesPrepend(next, Tail(matches))

RECURSIVE GroupMatches(_, _)
\* result[match.Concept] = append(result[match.Concept], match) for each match
GroupMatches(result, matches) ==
    IF matches = <<>> THEN result
    ELSE LET match == Head(matches)
             next  == IF match.Concept \in DOMAIN result
                      THEN [result EXCEPT ![match.Concept] = Append(@, match)]
                      ELSE (match.Concept :> <<match>>) @@ result
         IN  GroupMatches(next, Tail(matches))

RECURSIVE MatchVariablesLoopSkipFailed(_, _, _, _, _)
\* mutant of MatchVariablesLoop: a variable whose embedding fails is skipped
MatchVariablesLoopSkipFailed(m, vars, answers, result, invoked) ==
    IF vars = <<>>
    THEN [result |-> result, err |-> FALSE, Cache |-> m.Cache, invoked |-> invoked]
    ELSE LET variable == Head(vars)
             r  == MatchVariable(m, variable, answers[variable.Name])
             iv == IF r.invoked = "none" THEN invoked
                   ELSE Append(invoked, [strategy |-> r.invoked, text |-> variable.Name])
         IN  MatchVariablesLoopSkipFailed([m EXCEPT !.Cache = r.Cache], Tail(vars),
                 answers, IF r.err THEN result ELSE GroupMatches(result, r.matches), iv)

RECURSIVE MatchVariablesLoop(_, _, _, _, _)
MatchVariablesLoop(m, vars, answers, result, invoked) ==
    IF vars = <<>>
    THEN [result |-> result, err |-> FALSE, Cache |-> m.Cache, invoked |-> invoked]
    ELSE LET variable == Head(vars)
             r  == MatchVariable(m, variable, answers[variable.Name])
             iv == IF r.invoked = "none" THEN invoked
                   ELSE Append(invoked, [strategy |-> r.invoked, text |-> variable.Name])
         IN  IF r.err
             THEN [result |-> EmptyMap, err |-> TRUE, Cache |-> r.Cache, invoked |-> iv]
             ELSE MatchVariablesLoop([m EXCEPT !.Cache = r.Cache], Tail(vars), answers,
                                     GroupMatches(result, r.matches), iv)

\* MatchVariables: the map concept name -> matches, or an error and no map;
\* answers[name] is the service's answer to the request for name
MatchVariables(m, vars, answers) ==
    MatchVariablesLoop(m, vars, answers, EmptyMap, <<>>)

(***************************************************************************)
(* Query template engine (templates package).                              *)
(* A query file is [Name, HasConcepts, Concepts, Body]: the metadata lines *)
(* of its leading comment block and the text of its pattern.  A text is a  *)
(* sequence of symbols: "$", "{", "}", "(", ")" or a run of identifier     *)
(* characters.  The metadata lines hold no placeholder, so replacing in    *)
(* the whole file text is replacing in the body.                           *)
(***************************************************************************)
\* symbols that are no identifier characters
Punctuation == {"$", "{", "}", "(", ")"}

\* the token ${concept}
Placeholder(concept) == <<"$", "{">> \o concept \o <<"}">>

\* text[i..j] is a token ${identifier}: [a-zA-Z_][a-zA-Z0-9_]* between "${" and "}"
IsPlaceholderAt(text, i, j) ==
    /\ i + 3 <= j /\ j <= Len(text)
    /\ text[i] = "$" /\ text[i + 1] = "{" /\ text[j] = "}"
    /\ \A k \in (i + 2)..(j - 1) : text[k] \notin Punctuation

\* the names matched by the regexp \${([a-zA-Z_][a-zA-Z0-9_]*)} in the text
PlaceholderNames(text) ==
    {SubSeq(text, i + 2, j - 1) :
        <<i, j>> \in {p \in (1..Len(text)) \X (1..Len(text)) :
                        IsPlaceholderAt(text, p[1], p[2])}}

RECURSIVE ReplaceFirst(_, _, _)
\* mutant of ReplaceAll: only the first occurrence of old is replaced
ReplaceFirst(s, old, new) ==
    IF Len(s) < Len(old) THEN s
    ELSE IF SubSeq(s, 1, Len(old)) = old
    THEN new \o SubSeq(s, Len(old) + 1, Len(s))
    ELSE <<Head(s)>> \o ReplaceFirst(Tail(s), old, new)

RECURSIVE ReplaceAll(_, _, _)
\* strings.ReplaceAll: the non-overlapping occurrences of old, left to right
ReplaceAll(s, old, new) ==
    IF Len(s) < Len(old) THEN s
    ELSE IF SubSeq(s, 1, Len(old)) = old
    THEN new \o ReplaceAll(SubSeq(s, Len(old) + 1, Len(s)), old, new)
    ELSE <<Head(s)>> \o ReplaceAll(Tail(s), old, new)

\* ParseQueryTemplate: Concepts stays nil (<<>>) without a Concepts line
ParseQueryTemplate(queryContent, source) ==
    [Name |-> queryContent.Name,
     Concepts |-> IF queryContent.HasConcepts THEN queryContent.Concepts ELSE <<>>,
     Source |-> source,
     Original |-> queryContent,
     Parameters |-> PlaceholderNames(queryContent.Body)]

RECURSIVE SubstituteLoop(_, _, _, _)
SubstituteLoop(concepts, conceptMatches, parameters, processedQuery) ==
    IF concepts = <<>>
    THEN [err |-> FALSE, Parameters |-> parameters, ProcessedQuery |-> processedQuery]
    ELSE LET concept == Head(concepts)
         IN  IF concept \notin DOMAIN conceptMatches
             THEN [err |-> TRUE, Parameters |-> EmptyMap, ProcessedQuery |-> <<>>]
             ELSE IF Len(conceptMatches[concept]) = 0
             THEN [err |-> TRUE, Parameters |-> EmptyMap, ProcessedQuery |-> <<>>]
             ELSE LET bestMatch == conceptMatches[concept][1]
                      varName   == bestMatch.Variable.Name
                  IN  SubstituteLoop(Tail(concepts), conceptMatches,
                          (concept :> varName) @@ parameters,
                          ReplaceAll(processedQuery, Placeholder(concept), varName))

\* SubstituteParameters: an error, or the parameter values and the processed text
SubstituteParameters(template, conceptMatches) ==
    LET r == SubstituteLoop(template.Concepts, conceptMatches, EmptyMap,
                            template.Original.Body)
    IN  [err |-> r.err, Template |-> template, Parameters |-> r.Parameters,
         ProcessedQuery |-> [template.Original EXCEPT !.Body = r.ProcessedQuery]]

RECURSIVE ProcessLoopStopOnError(_, _, _)
\* mutant of ProcessLoop: the loop ends at the first template that fails
ProcessLoopStopOnError(queryTemplates, conceptMatches, order) ==
    IF order = <<>> THEN <<>>
    ELSE LET template == queryTemplates[Head(order)]
             rest     == ProcessLoopStopOnError(queryTemplates, conceptMatches, Tail(order))
         IN  IF Len(template.Concepts) = 0 THEN rest
             ELSE LET paramQuery == SubstituteParameters(template, conceptMatches)
                  IN  IF paramQuery.err THEN <<>>
                      ELSE <<paramQuery>> \o rest

RECURSIVE ProcessLoop(_, _, _)
\* the loop of ProcessTemplatedQueries over the map of templates
ProcessLoop(queryTemplates, conceptMatches, order) ==
    IF order = <<>> THEN <<>>
    ELSE LET template == queryTemplates[Head(order)]
             rest     == ProcessLoop(queryTemplates, conceptMatches, Tail(order))
         IN  IF Len(template.Concepts) = 0 THEN rest
             ELSE LET paramQuery == SubstituteParameters(template, conceptMatches)
                  IN  IF paramQuery.err THEN rest
                      ELSE <<paramQuery>> \o rest

\* ProcessTemplatedQueries; order is the order in which the range over the map
\* of templates visits its keys
ProcessTemplatedQueries(queryTemplates, conceptMatches, order) ==
    ProcessLoop(queryTemplates, conceptMatches, order)

\* the orders in which a range over a map with these keys can visit them
IterationOrders(keys) ==
    {o \in [1..Cardinality(keys) -> keys] : Range(o) = keys}

(***************************************************************************)
(* Concept registry (concepts package).                                    *)
(* The store is the first embeddings directory that exists: dir says       *)
(* whether there is one, files maps the names of its files to [status,     *)
(* data]: status "ok" with the parsed data, "malformed" for a file that is *)
(* no valid TOML, "unreadable" for one that cannot be read; subdir and     *)
(* vectorFiles are the directory of per-concept vector files of the legacy *)
(* metadata layout.                                                        *)
(***************************************************************************)
\* a concept of the built-in catalog: no vector
DefaultConcept(name) == [Name |-> <<name>>, Embedding |-> <<>>]

\* DefaultSecurityConcepts
DefaultSecurityConcepts ==
    <<DefaultConcept("active"), DefaultConcept("locked"),
      DefaultConcept("grace_period"), DefaultConcept("admin"),
      DefaultConcept("min_deposit"), DefaultConcept("bounds_check"),
      DefaultConcept("accumulator"), DefaultConcept("donation_cap")>>

Exists(store, file) == file \in DOMAIN store.files

Failed == [err |-> TRUE, concepts |-> <<>>]

Loaded(concepts) == [err |-> FALSE, concepts |-> concepts]

\* the last index of a concept with this name: conceptsMap[name] of the merge
LastIndexOf(concepts, name) ==
    LET I == {i \in DOMAIN concepts : concepts[i].Name = name}
    IN  IF I = {} THEN 0 ELSE CHOOSE i \in I : \A j \in I : j <= i

RECURSIVE MergeEmbeddingsAddUnknown(_, _)
\* mutant of MergeEmbeddings: an entry for an unknown concept is added to the catalog
MergeEmbeddingsAddUnknown(concepts, entries) ==
    IF entries = <<>> THEN concepts
    ELSE LET entry == Head(entries)
             i     == LastIndexOf(concepts, entry.ConceptName)
         IN  MergeEmbeddingsAddUnknown(
                 IF i = 0
                 THEN Append(concepts, [Name |-> entry.ConceptName,
                                        Embedding |-> entry.Embedding])
                 ELSE [concepts EXCEPT ![i].Embedding = entry.Embedding],
                 Tail(entries))

RECURSIVE MergeEmbeddings(_, _)
\* concept.Embedding = entry.Embedding for every entry whose concept is known
MergeEmbeddings(concepts, entries) ==
    IF entries = <<>> THEN concepts
    ELSE LET entry == Head(entries)
             i     == LastIndexOf(concepts, entry.ConceptName)
         IN  MergeEmbeddings(
                 IF i = 0 THEN concepts
                 ELSE [concepts EXCEPT ![i].Embedding = entry.Embedding],
                 Tail(entries))

\* mutant of loadLegacySecurityConcepts: the error of toml.Unmarshal is dropped
loadLegacySecurityConceptsLenient(store) ==
    LET data == store.files["security_concepts.toml"]
    IN  IF data.status = "unreadable" THEN Failed
        ELSE IF data.status = "malformed" THEN Loaded(<<>>)
        ELSE Loaded(data.data)

\* loadLegacySecurityConcepts
loadLegacySecurityConcepts(store) ==
    LET data == store.files["security_concepts.toml"]
    IN  IF data.status # "ok" THEN Failed ELSE Loaded(data.data)

\* the loop of loadLegacyMetadataFormat over one concept
LegacyVector(store, concept) ==
    IF concept.Name \notin DOMAIN store.vectorFiles THEN concept
    ELSE IF store.vectorFiles[concept.Name].status # "ok" THEN concept
    ELSE [concept EXCEPT !.Embedding = store.vectorFiles[concept.Name].data]

\* loadLegacyMetadataFormat
loadLegacyMetadataFormat(store) ==
    LET data == store.files["concepts_metadata.toml"]
    IN  IF data.status # "ok" THEN Failed
        ELSE IF store.subdir
        THEN Loaded([i \in DOMAIN data.data |-> LegacyVector(store, data.data[i])])
        ELSE Loaded(data.data)

\* mutant of LoadSecurityConcepts: the metadata layout is tried before the single file
LoadSecurityConceptsMetadataFirst(store) ==
    IF ~store.dir THEN Loaded(DefaultSecurityConcepts)
    ELSE IF ~Exists(store, "concepts.toml") \/ ~Exists(store, "embeddings.toml")
    THEN IF Exists(store, "concepts_metadata.toml") THEN loadLegacyMetadataFormat(store)
         ELSE IF Exists(store, "security_concepts.toml") THEN loadLegacySecurityConcepts(store)
         ELSE Loaded(DefaultSecurityConcepts)
    ELSE LET conceptsData   == store.files["concepts.toml"]
             embeddingsData == store.files["embeddings.toml"]
         IN  IF conceptsData.status # "ok" THEN Failed
             ELSE IF embeddingsData.status # "ok" THEN Loaded(conceptsData.data)
             ELSE Loaded(MergeEmbeddings(conceptsData.data, embeddingsData.data))

\* mutant of LoadSecurityConcepts: a directory without recognised files is an error
LoadSecurityConceptsNoFallback(store) ==
    IF ~store.dir THEN Loaded(DefaultSecurityConcepts)
    ELSE IF ~Exists(store, "concepts.toml") \/ ~Exists(store, "embeddings.toml")
    THEN IF Exists(store, "security_concepts.toml") THEN loadLegacySecurityConcepts(store)
         ELSE IF Exists(store, "concepts_metadata.toml") THEN loadLegacyMetadataFormat(store)
         ELSE Failed
    ELSE LET conceptsData   == store.files["concepts.toml"]
             embeddingsData == store.files["embeddings.toml"]
         IN  IF conceptsData.status # "ok" THEN Failed
             ELSE IF embeddingsData.status # "ok" THEN Loaded(conceptsData.data)
             ELSE Loaded(MergeEmbeddings(conceptsData.data, embeddingsData.data))

\* LoadSecurityConcepts
LoadSecurityConcepts(store) ==
    IF ~store.dir THEN Loaded(DefaultSecurityConcepts)
    ELSE IF ~Exists(store, "concepts.toml") \/ ~Exists(store, "embeddings.toml")
    THEN IF Exists(store, "security_concepts.toml") THEN loadLegacySecurityConcepts(store)
         ELSE IF Exists(store, "concepts_metadata.toml") THEN loadLegacyMetadataFormat(store)
         ELSE Loaded(DefaultSecurityConcepts)
    ELSE LET conceptsData   == store.files["concepts.toml"]
             embeddingsData == store.files["embeddings.toml"]
         IN  IF conceptsData.status # "ok" THEN Failed
             ELSE IF embeddingsData.status # "ok" THEN Loaded(conceptsData.data)
             ELSE Loaded(MergeEmbeddings(conceptsData.data, embeddingsData.data))

(***************************************************************************)
(* Variable extraction (variables package) and query execution (cmd).      *)
(* The parsed file is the sequence of its identifier nodes in source       *)
(* order, each [text, row].  The structural query executor is external: an *)
(* oracle maps a pattern text to whether it compiles and to the rows of    *)
(* its matches.                                                            *)
(***************************************************************************)
RECURSIVE ExtractLoopNoSeen(_, _)
\* mutant of ExtractLoop: the seen map is never consulted
ExtractLoopNoSeen(nodes, seen) ==
    IF nodes = <<>> THEN <<>>
    ELSE LET node == Head(nodes)
         IN  <<[Name |-> node.text, LineNumber |-> node.row + 1]>>
             \o ExtractLoopNoSeen(Tail(nodes), seen \cup {node.text})

RECURSIVE ExtractLoop(_, _)
ExtractLoop(nodes, seen) ==
    IF nodes = <<>> THEN <<>>
    ELSE LET node == Head(nodes)
         IN  IF node.text \in seen THEN ExtractLoop(Tail(nodes), seen)
             ELSE <<[Name |-> node.text, LineNumber |-> node.row + 1]>>
                  \o ExtractLoop(Tail(nodes), seen \cup {node.text})

\* ExtractVariables: one record per distinct text, at its first occurrence
ExtractVariables(nodes) == ExtractLoop(nodes, {})

\* ExtractQueryMetadata: the name of the Name line, "" without one
ExtractQueryMetadata(queryContent) == queryContent.Name

\* extractQueryPattern: the lines that are neither blank nor comments
extractQueryPattern(queryContent) == queryContent.Body

\* the file name without directory and extension
BaseName(queryFile) ==
    CASE queryFile = "plain.scm" -> "plain"
      [] queryFile = "active.scm" -> "active"
      [] queryFile = "locked.scm" -> "locked"
      [] queryFile = "both.scm" -> "both"
      [] OTHER -> queryFile

\* the findings of one compiled query: one per match
Findings(queryName, queryFile, rows) ==
    [i \in DOMAIN rows |->
        [QueryName |-> queryName, QueryFile |-> queryFile, LineNumber |-> rows[i] + 1]]

RECURSIVE RunLoopStopOnCompileError(_, _, _)
\* mutant of RunLoop: the loop ends at the first query that does not compile
RunLoopStopOnCompileError(queries, order, exec) ==
    IF order = <<>> THEN [results |-> <<>>, compiled |-> <<>>]
    ELSE LET queryFile    == Head(order)
             queryContent == queries[queryFile]
             name         == ExtractQueryMetadata(queryContent)
             queryName    == IF name = "" THEN BaseName(queryFile) ELSE name
             queryPattern == extractQueryPattern(queryContent)
             rest         == RunLoopStopOnCompileError(queries, Tail(order), exec)
             call         == [file |-> queryFile, pattern |-> queryPattern]
         IN  IF ~exec[queryPattern].compiles
             THEN [results |-> <<>>, compiled |-> <<call>>]
             ELSE [results |-> Findings(queryName, queryFile, exec[queryPattern].rows)
                                  \o rest.results,
                   compiled |-> <<call>> \o rest.compiled]

RECURSIVE RunLoop(_, _, _)
RunLoop(queries, order, exec) ==
    IF order = <<>> THEN [results |-> <<>>, compiled |-> <<>>]
    ELSE LET queryFile    == Head(order)
             queryContent == queries[queryFile]
             name         == ExtractQueryMetadata(queryContent)
             queryName    == IF name = "" THEN BaseName(queryFile) ELSE name
             queryPattern == extractQueryPattern(queryContent)
             rest         == RunLoop(queries, Tail(order), exec)
             call         == [file |-> queryFile, pattern |-> queryPattern]
         IN  IF ~exec[queryPattern].compiles
             THEN [results |-> rest.results, compiled |-> <<call>> \o rest.compiled]
             ELSE [results |-> Findings(queryName, queryFile, exec[queryPattern].rows)
                                  \o rest.results,
                   compiled |-> <<call>> \o rest.compiled]

\* RunQueries: the results, and the patterns handed to tree_sitter.NewQuery;
\* order is the order in which the range over the map visits the files
RunQueries(queries, order, exec) == RunLoop(queries, order, exec)

RECURSIVE RunParameterizedLoopNoAnnotation(_, _)
\* mutant of RunParameterizedLoop: the results keep the name RunQueries gave them
RunParameterizedLoopNoAnnotation(parameterizedQueries, exec) ==
    IF parameterizedQueries = <<>> THEN [results |-> <<>>, compiled |-> <<>>]
    ELSE LET paramQuery == Head(parameterizedQueries)
             source     == paramQuery.Template.Source
             r    == RunQueries((source :> paramQuery.ProcessedQuery), <<source>>, exec)
             rest == RunParameterizedLoopNoAnnotation(Tail(parameterizedQueries), exec)
         IN  [results |-> r.results \o rest.results,
              compiled |-> r.compiled \o rest.compiled]

RECURSIVE RunParameterizedLoop(_, _)
\* the loop of analyzeSmartMain over the parameterized queries
RunParameterizedLoop(parameterizedQueries, exec) ==
    IF parameterizedQueries = <<>> THEN [results |-> <<>>, compiled |-> <<>>]
    ELSE LET paramQuery == Head(parameterizedQueries)
             source     == paramQuery.Template.Source
             r    == RunQueries((source :> paramQuery.ProcessedQuery), <<source>>, exec)
             rest == RunParameterizedLoop(Tail(parameterizedQueries), exec)
         IN  [results |->
                 [i \in DOMAIN r.results |->
                     [r.results[i] EXCEPT
                         !.QueryName = paramQuery.Template.Name \o " (parametrized)"]]
                 \o rest.results,
              compiled |-> r.compiled \o rest.compiled]

\* mutant of ChooseStrategy: a key is looked for before the offline flag
ChooseStrategyKeyFirst(apiKey, envKey, offline) ==
    IF apiKey # "" THEN [fatal |-> FALSE, client |-> apiKey, offline |-> FALSE]
    ELSE IF envKey # "" THEN [fatal |-> FALSE, client |-> envKey, offline |-> FALSE]
    ELSE IF offline THEN [fatal |-> FALSE, client |-> "nil", offline |-> TRUE]
    ELSE [fatal |-> TRUE, client |-> "nil", offline |-> FALSE]

\* the strategy analyzeSmartMain sets up from --api-key, OPENAI_API_KEY and --offline
ChooseStrategy(apiKey, envKey, offline) ==
    IF offline THEN [fatal |-> FALSE, client |-> "nil", offline |-> TRUE]
    ELSE IF apiKey # "" THEN [fatal |-> FALSE, client |-> apiKey, offline |-> FALSE]
    ELSE IF envKey # "" THEN [fatal |-> FALSE, client |-> envKey, offline |-> FALSE]
    ELSE [fatal |-> TRUE, client |-> "nil", offline |-> FALSE]

(***************************************************************************)
(* State.                                                                  *)
(***************************************************************************)
VARIABLES
    matcher,    \* the EmbeddingMatcher: OpenAI, Concepts, Cache, SimilarityThreshold, Offline
    ret,        \* what the last call on the matcher returned
    served,     \* history: text -> vector of the first GetVariableEmbedding call that succeeded
    pc,         \* position of analyzeSmartMain
    input,      \* flags, environment and files of the run
    securityConcepts,       \* analyzeSmartMain's locals, in the order they are set
    variables,
    conceptMatches,
    queries,
    queryTemplates,
    parameterizedQueries,
    standardResults,
    templatedResults,
    compiled,   \* history: the patterns handed to the query executor, in order
    execMemo,   \* the executor's answers so far: pattern -> [compiles, rows]
    report,     \* what the run printed and its exit code
    firstReport \* the report of the run before this one

pipelineVars ==
    <<pc, input, securityConcepts, variables, conceptMatches, queries, queryTemplates,
      parameterizedQueries, standardResults, templatedResults, compiled, execMemo,
      report, firstReport>>

vars == <<matcher, ret, served, pipelineVars>>

(***************************************************************************)
(* Inputs of the matcher.                                                  *)
(***************************************************************************)
active == <<"active">>
locked == <<"locked">>

\* identifier texts
VarNames == {<<"A">>, <<"A", "B">>}

\* the texts a caller passes: the empty text as well where only offline matchers
\* are looked at
CallerNames == IF pc = "offline" THEN VarNames \cup {<<>>} ELSE VarNames

\* the variables a caller passes: texts with a line number
Variables == {[Name |-> n, LineNumber |-> 1] : n \in CallerNames}

\* vectors the embedding service returns, or a test puts into the cache
\* (matcher_test.go: 0.9, 0.1, 0.0 and 0.1, 0.9, 0.0, times 10)
ServiceVectors == {<<9, 1, 0>>, <<1, 9, 0>>}

\* answers of the embedding service to one request
Answers ==
    {[status |-> "failed", data |-> <<>>], [status |-> "ok", data |-> <<>>]}
    \cup {[status |-> "ok", data |-> <<v>>] : v \in ServiceVectors}

\* catalogs: the one of matcher_test.go, one without vectors, one with vectors of
\* other lengths and directions
Catalogs ==
    {<<[Name |-> active, Embedding |-> <<1, 0, 0>>],
       [Name |-> locked, Embedding |-> <<0, 1, 0>>]>>,
     <<[Name |-> active, Embedding |-> <<>>],
       [Name |-> locked, Embedding |-> <<>>]>>,
     <<[Name |-> active, Embedding |-> <<1, 1>>],
       [Name |-> locked, Embedding |-> <<1, 1, 1>>]>>}

\* thresholds a test sets: 0.5 = 1/sqrt(4) (matcher_test.go) and the default
Thresholds == {[dot |-> 1, nn |-> 4], DefaultThreshold}

\* the matcher variable before any matcher is made
NoMatcher == NewEmbeddingMatcher("nil", <<>>, FALSE)

\* the report of a run that has printed nothing yet
NoReport == [kind |-> "pending", exit |-> 0, findings |-> <<>>]

\* the input of a state in which no run is modelled
NoInput == [apiKey |-> "", envKey |-> "", offline |-> FALSE]

\* no analyze-smart run takes place
PipelineIdle ==
    /\ pc = "idle"
    /\ input = NoInput
    /\ securityConcepts = <<>>
    /\ variables = <<>>
    /\ conceptMatches = EmptyMap
    /\ queries = EmptyMap
    /\ queryTemplates = EmptyMap
    /\ parameterizedQueries = <<>>
    /\ standardResults = <<>>
    /\ templatedResults = <<>>
    /\ compiled = <<>>
    /\ execMemo = EmptyMap
    /\ report = NoReport
    /\ firstReport = NoReport

NoCall ==
    [op |-> "new", text |-> <<>>, list |-> <<>>, Vector |-> <<>>, err |-> FALSE,
     invoked |-> <<>>, again |-> FALSE, result |-> EmptyMap, answers |-> EmptyMap]

\* the answers of the service to the requests a call made
Asked(invoked, answers) ==
    [n \in {invoked[i].text : i \in {j \in DOMAIN invoked : invoked[j].strategy = "remote"}}
        |-> answers[n]]

\* the answers of the service to the requests a call can make: one for each text
\* that is not cached when the strategy is remote (no request is made otherwise)
AnswersFor(m, names) ==
    LET asked == IF m.Offline THEN {} ELSE names \ DOMAIN m.Cache
    IN  {[n \in names |-> IF n \in asked THEN a[n] ELSE [status |-> "failed", data |-> <<>>]] :
            a \in [asked -> Answers]}

(***************************************************************************)
(* The matcher as its callers and tests use it.                            *)
(***************************************************************************)
InitMatcher ==
    /\ \E offline \in BOOLEAN, concepts \in Catalogs :
          matcher = NewEmbeddingMatcher(IF offline THEN "nil" ELSE "key", concepts, offline)
    /\ ret = NoCall
    /\ served = EmptyMap
    /\ PipelineIdle

\* a call of GetVariableEmbedding
CallGetVariableEmbedding ==
    \E variable \in Variables :
      \E answers \in AnswersFor(matcher, {variable.Name}) :
        LET r == GetVariableEmbedding(matcher, variable, answers[variable.Name])
        IN  /\ matcher' = [matcher EXCEPT !.Cache = r.Cache]
            /\ ret' = [NoCall EXCEPT !.op = "get", !.text = variable.Name,
                          !.Vector = r.Vector, !.err = r.err,
                          !.invoked = IF r.invoked = "none" THEN <<>>
                                      ELSE <<[strategy |-> r.invoked,
                                              text |-> variable.Name]>>,
                          !.again = variable.Name \in DOMAIN served]
            /\ served' = IF r.err \/ variable.Name \in DOMAIN served THEN served
                         ELSE (variable.Name :> r.Vector) @@ served

\* a call of MatchVariables
CallMatchVariables ==
    \E list \in SeqUpTo(Variables, MaxVars) :
      \E answers \in AnswersFor(matcher, {list[i].Name : i \in DOMAIN list}) :
        LET r == MatchVariables(matcher, list, answers)
        IN  /\ matcher' = [matcher EXCEPT !.Cache = r.Cache]
            /\ ret' = [NoCall EXCEPT !.op = "match", !.list = list, !.err = r.err,
                          !.invoked = r.invoked, !.result = r.result,
                          !.answers = Asked(r.invoked, answers)]
            /\ UNCHANGED served

\* a test stores a vector in matcher.Cache.Variables (matcher_test.go)
SeedCache ==
    \E name \in VarNames, v \in ServiceVectors :
        /\ matcher' = [matcher EXCEPT !.Cache = (name :> v) @@ matcher.Cache]
        /\ ret' = [NoCall EXCEPT !.op = "seed", !.text = name]
        /\ served' = [n \in DOMAIN served \ {name} |-> served[n]]

\* a test overrides matcher.SimilarityThreshold (matcher_test.go)
SetThreshold ==
    \E t \in Thresholds :
        /\ matcher' = [matcher EXCEPT !.SimilarityThreshold = t]
        /\ ret' = [NoCall EXCEPT !.op = "threshold"]
        /\ UNCHANGED served

NextMatcher ==
    \/ CallGetVariableEmbedding /\ UNCHANGED pipelineVars
    \/ CallMatchVariables /\ UNCHANGED pipelineVars
    \/ SeedCache /\ UNCHANGED pipelineVars
    \/ SetThreshold /\ UNCHANGED pipelineVars

SpecMatcher == InitMatcher /\ [][NextMatcher]_vars

(***************************************************************************)
(* Claims about the matcher.                                               *)
(***************************************************************************)
\* the entries of a list are in order of non-increasing SimilarityScore
SortedByScore(list) ==
    \A i \in 1..(Len(list) - 1) :
        ScoreGE(list[i].SimilarityScore, list[i + 1].SimilarityScore)

\* C6: in the map MatchVariables returns, every concept's match list is ordered by
\* non-increasing SimilarityScore
C6_ListsSortedByScore ==
    (ret.op = "match" /\ ~ret.err) =>
        \A c \in DOMAIN ret.result : SortedByScore(ret.result[c])

\* the vector GetVariableEmbedding yields for a text once the call has returned
EmbeddingOf(name) ==
    IF name \in DOMAIN matcher.Cache THEN matcher.Cache[name]
    ELSE getOfflineEmbedding(name)

\* the pair (variable, concept name) is in the list keyed by the concept name
InResult(result, variable, conceptName) ==
    /\ conceptName \in DOMAIN result
    /\ \E j \in DOMAIN result[conceptName] :
          /\ result[conceptName][j].Variable = variable
          /\ result[conceptName][j].Concept = conceptName

C8_LaterCallsUseCache ==
    (ret.op = "get" /\ ret.again) =>
        /\ ~ret.err
        /\ ret.Vector = served[ret.text]
        /\ ret.invoked = <<>>

(***************************************************************************)
(* Inputs of an analyze-smart run.                                         *)
(***************************************************************************)
\* the most query files in the query directory
MaxQueries == 2

\* values of --api-key and of OPENAI_API_KEY
FlagKeys == {"", "flagkey"}
EnvKeys == {"", "envkey"}

\* the concepts of concepts.toml and the entries of embeddings.toml
ConceptsToml == <<[Name |-> active, Embedding |-> <<>>], [Name |-> locked, Embedding |-> <<>>]>>
EmbeddingsToml ==
    <<[ConceptName |-> active, Embedding |-> <<1, 0, 0>>],
      [ConceptName |-> locked, Embedding |-> <<0, 1, 0>>]>>

\* no embeddings directory
NoStore == [dir |-> FALSE, files |-> EmptyMap, subdir |-> FALSE, vectorFiles |-> EmptyMap]

\* the split layout, with a concepts file that does or does not parse
SplitStore(conceptsStatus) ==
    [dir |-> TRUE,
     files |-> ("concepts.toml" :> [status |-> conceptsStatus, data |-> ConceptsToml])
               @@ ("embeddings.toml" :> [status |-> "ok", data |-> EmbeddingsToml]),
     subdir |-> FALSE, vectorFiles |-> EmptyMap]

\* the split layout with reference vectors of two components
ShortVectorStore ==
    [dir |-> TRUE,
     files |-> ("concepts.toml" :> [status |-> "ok", data |-> ConceptsToml])
               @@ ("embeddings.toml" :>
                     [status |-> "ok",
                      data |-> <<[ConceptName |-> active, Embedding |-> <<1, 0>>],
                                 [ConceptName |-> locked, Embedding |-> <<0, 1>>]>>]),
     subdir |-> FALSE, vectorFiles |-> EmptyMap]

Stores == {NoStore, SplitStore("ok"), SplitStore("malformed"), ShortVectorStore}

\* source files: one that cannot be read, one that does not parse, and two that
\* parse to identifier nodes [text, row]
Sources ==
    {[readable |-> FALSE, parses |-> FALSE, nodes |-> <<>>],
     [readable |-> TRUE, parses |-> FALSE, nodes |-> <<>>],
     [readable |-> TRUE, parses |-> TRUE,
      nodes |-> <<[text |-> <<"A", "B">>, row |-> 0], [text |-> <<"A">>, row |-> 1],
                  [text |-> <<"A", "B">>, row |-> 2]>>],
     [readable |-> TRUE, parses |-> TRUE, nodes |-> <<[text |-> <<"A">>, row |-> 0]>>]}

\* the query files a query directory can hold: a plain one, and templates for
\* active (with a Name line) and locked (without one)
QueryPool ==
    ("plain.scm" :> [Name |-> "Plain", HasConcepts |-> FALSE, Concepts |-> <<>>,
                     Body |-> <<"(", "deposit", ")">>])
    @@ ("active.scm" :> [Name |-> "Active", HasConcepts |-> TRUE, Concepts |-> <<active>>,
                         Body |-> <<"(">> \o Placeholder(active) \o <<")">>])
    @@ ("locked.scm" :> [Name |-> "", HasConcepts |-> TRUE, Concepts |-> <<locked>>,
                         Body |-> <<"(">> \o Placeholder(locked) \o <<")">>])

\* query directories: one that cannot be walked, and those with up to MaxQueries files
QueryDirs ==
    {[readable |-> FALSE, files |-> EmptyMap]}
    \cup {[readable |-> TRUE, files |-> [f \in F |-> QueryPool[f]]] :
            F \in {G \in SUBSET DOMAIN QueryPool : Cardinality(G) <= MaxQueries}}

\* what the query executor can say of a pattern: it does not compile, it matches
\* nothing, it matches at row 0
ExecOutcomes ==
    {[compiles |-> FALSE, rows |-> <<>>], [compiles |-> TRUE, rows |-> <<>>],
     [compiles |-> TRUE, rows |-> <<0>>]}

\* the executor's answers to these patterns: those given before, and any outcome
\* for a pattern it has not seen
ExecFor(patterns) ==
    {e @@ execMemo : e \in [patterns \ DOMAIN execMemo -> ExecOutcomes]}

(***************************************************************************)
(* analyzeSmartMain, stage by stage.                                       *)
(***************************************************************************)
\* the locals of analyzeSmartMain before it runs
Locals ==
    /\ securityConcepts = <<>>
    /\ variables = <<>>
    /\ conceptMatches = EmptyMap
    /\ queries = EmptyMap
    /\ queryTemplates = EmptyMap
    /\ parameterizedQueries = <<>>
    /\ standardResults = <<>>
    /\ templatedResults = <<>>
    /\ compiled = <<>>
    /\ report = NoReport

Init ==
    /\ pc = "LoadConcepts"
    /\ \E apiKey \in FlagKeys, envKey \in EnvKeys, offline \in BOOLEAN,
          store \in Stores, source \in Sources, queryDir \in QueryDirs :
            input = [apiKey |-> apiKey, envKey |-> envKey, offline |-> offline,
                     store |-> store, source |-> source, queryDir |-> queryDir]
    /\ matcher = NoMatcher
    /\ ret = NoCall
    /\ served = EmptyMap
    /\ Locals
    /\ execMemo = EmptyMap
    /\ firstReport = NoReport

\* the run prints an error and exits with code 1
Fatal ==
    /\ pc' = "exited"
    /\ report' = [kind |-> "fatal", exit |-> 1, findings |-> <<>>]

\* concepts.LoadSecurityConcepts, fatal on error
LoadConcepts ==
    /\ pc = "LoadConcepts"
    /\ LET r == LoadSecurityConcepts(input.store)
       IN  IF r.err
           THEN Fatal /\ UNCHANGED securityConcepts
           ELSE /\ securityConcepts' = r.concepts
                /\ pc' = "ReadSource"
                /\ UNCHANGED report
    /\ UNCHANGED <<matcher, ret, served, input, variables, conceptMatches, queries,
                   queryTemplates, parameterizedQueries, standardResults,
                   templatedResults, compiled, execMemo, firstReport>>

\* os.ReadFile and cairo.Parse, fatal on error
ReadAndParse ==
    /\ pc = "ReadSource"
    /\ IF input.source.readable /\ input.source.parses
       THEN pc' = "Extract" /\ UNCHANGED report
       ELSE Fatal
    /\ UNCHANGED <<matcher, ret, served, input, securityConcepts, variables,
                   conceptMatches, queries, queryTemplates, parameterizedQueries,
                   standardResults, templatedResults, compiled, execMemo, firstReport>>

\* variables.ExtractVariables
Extract ==
    /\ pc = "Extract"
    /\ variables' = ExtractVariables(input.source.nodes)
    /\ pc' = "SetupMatcher"
    /\ UNCHANGED <<matcher, ret, served, input, securityConcepts, conceptMatches,
                   queries, queryTemplates, parameterizedQueries, standardResults,
                   templatedResults, compiled, execMemo, report, firstReport>>

\* the matcher is made for the chosen strategy; fatal without a key when not offline
SetupMatcher ==
    /\ pc = "SetupMatcher"
    /\ LET c == ChooseStrategy(input.apiKey, input.envKey, input.offline)
       IN  IF c.fatal
           THEN Fatal /\ UNCHANGED matcher
           ELSE /\ matcher' = NewEmbeddingMatcher(c.client, securityConcepts, c.offline)
                /\ pc' = "MatchConcepts"
                /\ UNCHANGED report
    /\ UNCHANGED <<ret, served, input, securityConcepts, variables, conceptMatches,
                   queries, queryTemplates, parameterizedQueries, standardResults,
                   templatedResults, compiled, execMemo, firstReport>>

\* matcher.MatchVariables, fatal on error
MatchConcepts ==
    /\ pc = "MatchConcepts"
    /\ \E answers \in AnswersFor(matcher, {variables[i].Name : i \in DOMAIN variables}) :
         LET r == MatchVariables(matcher, variables, answers)
         IN  /\ matcher' = [matcher EXCEPT !.Cache = r.Cache]
             /\ ret' = [NoCall EXCEPT !.op = "match", !.list = variables, !.err = r.err,
                           !.invoked = r.invoked, !.result = r.result,
                           !.answers = Asked(r.invoked, answers)]
             /\ IF r.err
                THEN Fatal /\ UNCHANGED conceptMatches
                ELSE /\ conceptMatches' = r.result
                     /\ pc' = "ReadQueries"
                     /\ UNCHANGED report
    /\ UNCHANGED <<served, input, securityConcepts, variables, queries,
                   queryTemplates, parameterizedQueries, standardResults,
                   templatedResults, compiled, execMemo, firstReport>>

\* ReadQueryFiles: fatal on error, exit 0 when there is no query file
ReadQueries ==
    /\ pc = "ReadQueries"
    /\ IF ~input.queryDir.readable
       THEN Fatal /\ UNCHANGED queries
       ELSE IF DOMAIN input.queryDir.files = {}
       THEN /\ pc' = "exited"
            /\ report' = [kind |-> "noqueries", exit |-> 0, findings |-> <<>>]
            /\ UNCHANGED queries
       ELSE /\ queries' = input.queryDir.files
            /\ pc' = "ParseTemplates"
            /\ UNCHANGED report
    /\ UNCHANGED <<matcher, ret, served, input, securityConcepts, variables,
                   conceptMatches, queryTemplates, parameterizedQueries,
                   standardResults, templatedResults, compiled, execMemo, firstReport>>

\* templates.ParseQueryTemplate for every query file
ParseTemplates ==
    /\ pc = "ParseTemplates"
    /\ queryTemplates' = [path \in DOMAIN queries |-> ParseQueryTemplate(queries[path], path)]
    /\ pc' = "Parameterize"
    /\ UNCHANGED <<matcher, ret, served, input, securityConcepts, variables,
                   conceptMatches, queries, parameterizedQueries, standardResults,
                   templatedResults, compiled, execMemo, report, firstReport>>

\* mutant of Parameterize: the run goes on with the parameterized queries, the
\* queries of the directory are not run
ParameterizeSkipsStandard ==
    /\ pc = "Parameterize"
    /\ \E order \in IterationOrders(DOMAIN queryTemplates) :
         parameterizedQueries' =
             ProcessTemplatedQueries(queryTemplates, conceptMatches, order)
    /\ pc' = "RunParameterized"
    /\ UNCHANGED <<matcher, ret, served, input, securityConcepts, variables,
                   conceptMatches, queries, queryTemplates, standardResults,
                   templatedResults, compiled, execMemo, report, firstReport>>

\* templates.ProcessTemplatedQueries
Parameterize ==
    /\ pc = "Parameterize"
    /\ \E order \in IterationOrders(DOMAIN queryTemplates) :
         parameterizedQueries' =
             ProcessTemplatedQueries(queryTemplates, conceptMatches, order)
    /\ pc' = "RunStandard"
    /\ UNCHANGED <<matcher, ret, served, input, securityConcepts, variables,
                   conceptMatches, queries, queryTemplates, standardResults,
                   templatedResults, compiled, execMemo, report, firstReport>>

\* standardResults := RunQueries(data, tree, queries)
RunStandard ==
    /\ pc = "RunStandard"
    /\ \E order \in IterationOrders(DOMAIN queries) :
       \E exec \in ExecFor({extractQueryPattern(queries[f]) : f \in DOMAIN queries}) :
         LET r == RunQueries(queries, order, exec)
         IN  /\ standardResults' = r.results
             /\ compiled' = compiled \o r.compiled
             /\ execMemo' = exec
    /\ pc' = "RunParameterized"
    /\ UNCHANGED <<matcher, ret, served, input, securityConcepts, variables,
                   conceptMatches, queries, queryTemplates, parameterizedQueries,
                   templatedResults, report, firstReport>>

\* the loop over the parameterized queries
RunParameterized ==
    /\ pc = "RunParameterized"
    /\ \E exec \in ExecFor({extractQueryPattern(parameterizedQueries[i].ProcessedQuery) :
                              i \in DOMAIN parameterizedQueries}) :
         LET r == RunParameterizedLoop(parameterizedQueries, exec)
         IN  /\ templatedResults' = r.results
             /\ compiled' = compiled \o r.compiled
             /\ execMemo' = exec
    /\ pc' = "Report"
    /\ UNCHANGED <<matcher, ret, served, input, securityConcepts, variables,
                   conceptMatches, queries, queryTemplates, parameterizedQueries,
                   standardResults, report, firstReport>>

\* mutant of Report: nothing is printed when there is no result
ReportNothingWhenEmpty ==
    /\ pc = "Report"
    /\ LET allResults == standardResults \o templatedResults
       IN  report' = [kind |-> IF Len(allResults) = 0 THEN "silent" ELSE "findings",
                      exit |-> 0, findings |-> allResults]
    /\ pc' = "exited"
    /\ UNCHANGED <<matcher, ret, served, input, securityConcepts, variables,
                   conceptMatches, queries, queryTemplates, parameterizedQueries,
                   standardResults, templatedResults, compiled, execMemo, firstReport>>

\* allResults := append(standardResults, templatedResults...), printed
Report ==
    /\ pc = "Report"
    /\ LET allResults == standardResults \o templatedResults
       IN  report' = [kind |-> IF Len(allResults) = 0 THEN "clean" ELSE "findings",
                      exit |-> 0, findings |-> allResults]
    /\ pc' = "exited"
    /\ UNCHANGED <<matcher, ret, served, input, securityConcepts, variables,
                   conceptMatches, queries, queryTemplates, parameterizedQueries,
                   standardResults, templatedResults, compiled, execMemo, firstReport>>

\* the command is run once more on the same files, flags and environment; the
\* executor answers a pattern it has seen as it did before
RunAgain ==
    /\ pc = "exited"
    /\ firstReport = NoReport
    /\ firstReport' = report
    /\ pc' = "LoadConcepts"
    /\ matcher' = NoMatcher
    /\ securityConcepts' = <<>>
    /\ variables' = <<>>
    /\ conceptMatches' = EmptyMap
    /\ queries' = EmptyMap
    /\ queryTemplates' = EmptyMap
    /\ parameterizedQueries' = <<>>
    /\ standardResults' = <<>>
    /\ templatedResults' = <<>>
    /\ compiled' = <<>>
    /\ report' = NoReport
    /\ ret' = NoCall
    /\ UNCHANGED <<served, input, execMemo>>

Next ==
    \/ LoadConcepts
    \/ ReadAndParse
    \/ Extract
    \/ SetupMatcher
    \/ MatchConcepts
    \/ ReadQueries
    \/ ParseTemplates
    \/ Parameterize
    \/ RunStandard
    \/ RunParameterized
    \/ Report
    \/ RunAgain

Spec == Init /\ [][Next]_vars

(***************************************************************************)
(* The offline matcher, as analyzeSmartMain makes it with --offline: the    *)
(* client is nil.                                                          *)
(***************************************************************************)
InitOffline ==
    /\ pc = "offline"
    /\ \E concepts \in Catalogs : matcher = NewEmbeddingMatcher("nil", concepts, TRUE)
    /\ ret = NoCall
    /\ served = EmptyMap
    /\ input = NoInput
    /\ Locals
    /\ execMemo = EmptyMap
    /\ firstReport = NoReport

NextOffline ==
    \/ CallGetVariableEmbedding /\ UNCHANGED pipelineVars
    \/ CallMatchVariables /\ UNCHANGED pipelineVars
    \/ SetThreshold /\ UNCHANGED pipelineVars

SpecOffline == InitOffline /\ [][NextOffline]_vars


(***************************************************************************)
(* The template engine as its callers and tests use it.                    *)
(***************************************************************************)
\* the most templates in the map given to ProcessTemplatedQueries
MaxTemplates == 2

\* query files: without a Concepts line, with one or two concepts, with a
\* placeholder that occurs twice, with a placeholder inside "${" and "}", with a
\* placeholder that names no concept of the Concepts line, with no placeholder
TemplateContents ==
    {[Name |-> "T", HasConcepts |-> FALSE, Concepts |-> <<>>,
      Body |-> <<"(">> \o Placeholder(active) \o <<")">>],
     [Name |-> "T", HasConcepts |-> TRUE, Concepts |-> <<active>>,
      Body |-> <<"(">> \o Placeholder(active) \o <<")">>],
     [Name |-> "T", HasConcepts |-> TRUE, Concepts |-> <<active, locked>>,
      Body |-> <<"(">> \o Placeholder(active) \o Placeholder(locked) \o <<")">>],
     [Name |-> "T", HasConcepts |-> TRUE, Concepts |-> <<active>>,
      Body |-> Placeholder(active) \o <<"(">> \o Placeholder(active) \o <<")">>],
     [Name |-> "T", HasConcepts |-> TRUE, Concepts |-> <<active>>,
      Body |-> <<"$", "{">> \o Placeholder(active) \o <<"}">>],
     [Name |-> "T", HasConcepts |-> TRUE, Concepts |-> <<active, locked>>,
      Body |-> <<"$", "{">> \o Placeholder(active) \o <<"}">>],
     [Name |-> "T", HasConcepts |-> TRUE, Concepts |-> <<active>>,
      Body |-> <<"(">> \o Placeholder(active) \o Placeholder(<<"z">>) \o <<")">>],
     [Name |-> "T", HasConcepts |-> TRUE, Concepts |-> <<locked>>,
      Body |-> <<"(", "deposit", ")">>]}

\* maps of templates, keyed by source
TemplateMaps ==
    UNION {[F -> {ParseQueryTemplate(c, "t") : c \in TemplateContents}] :
            F \in {G \in SUBSET DOMAIN QueryPool : Cardinality(G) <= MaxTemplates}}

\* a match of a variable with this name to a concept
MatchOf(name, concept, score) ==
    [Variable |-> [Name |-> name, LineNumber |-> 1], Concept |-> concept,
     SimilarityScore |-> score]

\* the match lists a concept can have: none, or one or two matches; a variable can
\* have the name of a concept
MatchLists(concept) ==
    {<<>>,
     <<MatchOf(<<"A">>, concept, [dot |-> 1, nn |-> 1])>>,
     <<MatchOf(<<"locked">>, concept, [dot |-> 9, nn |-> 100]),
       MatchOf(<<"A">>, concept, [dot |-> 8, nn |-> 100])>>}

\* concept-match maps: a concept is no key, or is mapped to one of its lists
ConceptMatchMaps ==
    UNION {[K -> UNION {MatchLists(c) : c \in K}] : K \in SUBSET {active, locked}}

InitTemplates ==
    /\ pc = "templates"
    /\ \E m \in TemplateMaps :
          queryTemplates = [src \in DOMAIN m |-> [m[src] EXCEPT !.Source = src]]
    /\ \E cm \in ConceptMatchMaps :
          /\ \A k \in DOMAIN cm : \A j \in DOMAIN cm[k] : cm[k][j].Concept = k
          /\ conceptMatches = cm
    /\ matcher = NoMatcher
    /\ ret = NoCall
    /\ served = EmptyMap
    /\ input = NoInput
    /\ securityConcepts = <<>>
    /\ variables = <<>>
    /\ queries = EmptyMap
    /\ parameterizedQueries = <<>>
    /\ standardResults = <<>>
    /\ templatedResults = <<>>
    /\ compiled = <<>>
    /\ execMemo = EmptyMap
    /\ report = NoReport
    /\ firstReport = NoReport

\* a call of SubstituteParameters
CallSubstituteParameters ==
    /\ \E src \in DOMAIN queryTemplates :
          ret' = [op |-> "substitute", template |-> queryTemplates[src],
                  out |-> SubstituteParameters(queryTemplates[src], conceptMatches)]
    /\ UNCHANGED <<matcher, served, pipelineVars>>

\* a call of ProcessTemplatedQueries
CallProcessTemplatedQueries ==
    /\ \E order \in IterationOrders(DOMAIN queryTemplates) :
          /\ parameterizedQueries' =
                ProcessTemplatedQueries(queryTemplates, conceptMatches, order)
          /\ ret' = [op |-> "process", order |-> order]
    /\ UNCHANGED <<matcher, served, pc, input, securityConcepts, variables,
                   conceptMatches, queries, queryTemplates, standardResults,
                   templatedResults, compiled, execMemo, report, firstReport>>

NextTemplates ==
    \/ CallSubstituteParameters
    \/ CallProcessTemplatedQueries

SpecTemplates == InitTemplates /\ [][NextTemplates]_vars


(***************************************************************************)
(* Claims about the template engine.                                       *)
(***************************************************************************)
\* every concept of the template has at least one match in the map
AllConceptsMatched(template, matches) ==
    \A i \in DOMAIN template.Concepts :
        /\ template.Concepts[i] \in DOMAIN matches
        /\ Len(matches[template.Concepts[i]]) > 0

\* the template has concepts and each has a match
Satisfiable(template, matches) ==
    Len(template.Concepts) > 0 /\ AllConceptsMatched(template, matches)

\* the entries of the returned list that were made from the template of this source
EntriesOf(src) ==
    {i \in DOMAIN parameterizedQueries : parameterizedQueries[i].Template.Source = src}

\* C3: ProcessTemplatedQueries returns exactly one ParameterizedQuery for each
\* template with a non-empty Concepts list all of whose concepts have a non-empty
\* match list, and none for any other template, wherever the failing templates come
\* in the iteration
C3_OnePerSatisfiableTemplate ==
    ret.op = "process" =>
        /\ \A src \in DOMAIN queryTemplates :
              Cardinality(EntriesOf(src)) =
                  IF Satisfiable(queryTemplates[src], conceptMatches) THEN 1 ELSE 0
        /\ \A i \in DOMAIN parameterizedQueries :
              LET src == parameterizedQueries[i].Template.Source
              IN  /\ src \in DOMAIN queryTemplates
                  /\ parameterizedQueries[i].Template = queryTemplates[src]

\* C3 witness: a template that fails for a missing or unmatched concept was visited
\* before a template that succeeds, and the list holds the latter
C3_Witness ==
    /\ ret.op = "process"
    /\ Len(ret.order) = 2
    /\ Len(queryTemplates[ret.order[1]].Concepts) > 0
    /\ ~AllConceptsMatched(queryTemplates[ret.order[1]], conceptMatches)
    /\ Satisfiable(queryTemplates[ret.order[2]], conceptMatches)
    /\ Len(parameterizedQueries) = 1
    /\ parameterizedQueries[1].Template.Source = ret.order[2]

EveryOpenerIsRequired(template) ==
    LET text == template.Original.Body
    IN  \A i \in 1..(Len(text) - 1) :
            (text[i] = "$" /\ text[i + 1] = "{") =>
                \E k \in DOMAIN template.Concepts :
                    LET token == Placeholder(template.Concepts[k])
                    IN  /\ i + Len(token) - 1 <= Len(text)
                        /\ SubSeq(text, i, i + Len(token) - 1) = token

TokenAtHead(text, concepts) ==
    LET hits == {k \in DOMAIN concepts :
                    /\ Len(Placeholder(concepts[k])) <= Len(text)
                    /\ SubSeq(text, 1, Len(Placeholder(concepts[k])))
                          = Placeholder(concepts[k])}
    IN  IF hits = {} THEN <<>> ELSE concepts[CHOOSE k \in hits : TRUE]

RECURSIVE ReplaceTokens(_, _, _)
\* the text with every occurrence of the token ${c} of a required concept c replaced
\* by the identifier bound to c, and every other character unchanged
ReplaceTokens(text, concepts, bound) ==
    IF text = <<>> THEN <<>>
    ELSE LET c == TokenAtHead(text, concepts)
         IN  IF c = <<>>
             THEN <<Head(text)>> \o ReplaceTokens(Tail(text), concepts, bound)
             ELSE bound[c] \o ReplaceTokens(SubSeq(text, Len(Placeholder(c)) + 1, Len(text)),
                                            concepts, bound)

\* the identifier bound to each required concept: the variable of the first match
BoundIdentifiers(template, matches) ==
    [c \in Range(template.Concepts) |-> matches[c][1].Variable.Name]

\* C20: when SubstituteParameters succeeds, ProcessedQuery is the template text with
\* every occurrence of ${c}, for each required concept c, replaced by the identifier
\* bound to c and every other character unchanged, and Parameters maps each required
\* concept to that identifier
C20_OnlyTokensReplaced ==
    (ret.op = "substitute" /\ ~ret.out.err) =>
        LET bound == BoundIdentifiers(ret.template, conceptMatches)
        IN  /\ ret.out.Parameters = bound
            /\ ret.out.ProcessedQuery.Body
                  = ReplaceTokens(ret.template.Original.Body, ret.template.Concepts, bound)
            /\ ret.out.ProcessedQuery
                  = [ret.template.Original EXCEPT !.Body = ret.out.ProcessedQuery.Body]

(***************************************************************************)
(* Claims about an analyze-smart run.                                      *)
(***************************************************************************)
\* the calls of the query executor for the query file f
CallsFor(f) == {i \in DOMAIN compiled : compiled[i].file = f}

\* C1: a templated query with a required concept that has no match is skipped: its
\* pattern is never passed to the query executor, in no form, and no Finding comes
\* from it
C1_UnmatchedTemplateNeverExecuted ==
    \A f \in DOMAIN queries :
        (queries[f].HasConcepts
         /\ ~AllConceptsMatched(ParseQueryTemplate(queries[f], f), conceptMatches))
            => /\ CallsFor(f) = {}
               /\ \A i \in DOMAIN report.findings : report.findings[i].QueryFile # f

\* C2: every loaded query file is executed in exactly one form: a file without a
\* Concepts line once and unmodified, a file with a Concepts line only as its
\* parameterized text and at most once
C2_ExecutedInOneForm ==
    (pc = "exited" /\ report.kind \in {"clean", "findings"}) =>
        \A f \in DOMAIN queries :
            IF ~queries[f].HasConcepts
            THEN /\ Cardinality(CallsFor(f)) = 1
                 /\ \A i \in CallsFor(f) : compiled[i].pattern = queries[f].Body
            ELSE /\ Cardinality(CallsFor(f)) <= 1
                 /\ \A i \in CallsFor(f) : PlaceholderNames(compiled[i].pattern) = {}

\* C5: the identifier bound for a required concept of a template has the highest
\* similarity score among the identifiers MatchVariables matched to the concept
C5_BoundIsBestMatch ==
    \A i \in DOMAIN parameterizedQueries :
        \A c \in DOMAIN parameterizedQueries[i].Parameters :
            /\ c \in DOMAIN conceptMatches
            /\ \E j \in DOMAIN conceptMatches[c] :
                  /\ conceptMatches[c][j].Variable.Name = parameterizedQueries[i].Parameters[c]
                  /\ \A k \in DOMAIN conceptMatches[c] :
                        ScoreGE(conceptMatches[c][j].SimilarityScore,
                                conceptMatches[c][k].SimilarityScore)

\* C9: two runs over the same source file, query directory and concept store, both
\* offline, report the same Findings in the same order
C9_OfflineRunsReportTheSame ==
    (pc = "exited" /\ firstReport # NoReport /\ input.offline)
        => report.findings = firstReport.findings

\* C10: the strategy is chosen with the precedence --api-key, then OPENAI_API_KEY,
\* then --offline: a key given by flag or environment makes the strategy remote with
\* that key, and the strategy is offline only without any key
C10_KeysBeforeOffline ==
    pc = "MatchConcepts" =>
        IF input.apiKey # "" THEN ~matcher.Offline /\ matcher.OpenAI = input.apiKey
        ELSE IF input.envKey # "" THEN ~matcher.Offline /\ matcher.OpenAI = input.envKey
        ELSE input.offline /\ matcher.Offline

\* C10 amended: --offline selects the offline strategy whatever keys are given;
\* without it the key of --api-key is used, and without that the key of
\* OPENAI_API_KEY
C10_OfflineBeforeKeys ==
    pc = "MatchConcepts" =>
        IF input.offline THEN matcher.Offline /\ matcher.OpenAI = "nil"
        ELSE IF input.apiKey # "" THEN ~matcher.Offline /\ matcher.OpenAI = input.apiKey
        ELSE input.envKey # "" /\ ~matcher.Offline /\ matcher.OpenAI = input.envKey

\* C10 witness: the run was started with --offline and with both keys, and its
\* matcher is offline
C10_Witness ==
    /\ pc = "MatchConcepts"
    /\ input.offline /\ input.apiKey # "" /\ input.envKey # ""
    /\ matcher.Offline


(***************************************************************************)
(* The concept loader on the embeddings directories it can find.           *)
(***************************************************************************)
\* a file that does not exist
Absent == [status |-> "absent", data |-> <<>>]

\* a file that exists and parses to this data
Ok(data) == [status |-> "ok", data |-> data]

\* a file that exists and is no valid TOML, and one that cannot be read
Malformed == [status |-> "malformed", data |-> <<>>]
Unreadable == [status |-> "unreadable", data |-> <<>>]

\* the concepts of security_concepts.toml: vectors inline
LegacyToml == <<[Name |-> active, Embedding |-> <<1, 0, 0>>]>>

\* the concepts of concepts_metadata.toml
MetadataToml == <<[Name |-> locked, Embedding |-> <<>>], [Name |-> active, Embedding |-> <<>>]>>

\* embeddings.toml: an entry for each concept; an entry for one concept and one for a
\* concept the concepts file does not have; no entry
EmbeddingsChoices ==
    {EmbeddingsToml,
     <<[ConceptName |-> <<"admin">>, Embedding |-> <<1, 1, 0>>],
       [ConceptName |-> locked, Embedding |-> <<0, 1, 0>>]>>,
     <<>>}

\* the files of a directory: those of the choice that exist
FilesOf(choice) == [f \in {g \in DOMAIN choice : choice[g] # Absent} |-> choice[f]]

\* the embeddings directories: the four recognised files, each absent, well-formed,
\* malformed or unreadable, and the subdirectory with a vector file per concept
LoaderStores ==
    {NoStore}
    \cup {[dir |-> TRUE,
           files |-> FilesOf(("concepts.toml" :> c) @@ ("embeddings.toml" :> e)
                             @@ ("security_concepts.toml" :> l)
                             @@ ("concepts_metadata.toml" :> m)),
           subdir |-> v # <<>>,
           vectorFiles |-> IF v = <<>> THEN EmptyMap
                           ELSE FilesOf((active :> v[1]) @@ (locked :> v[2]))] :
            c \in {Absent, Ok(ConceptsToml), Malformed, Unreadable},
            e \in {Absent, Malformed, Unreadable} \cup {Ok(d) : d \in EmbeddingsChoices},
            l \in {Absent, Ok(LegacyToml), Malformed},
            m \in {Absent, Ok(MetadataToml), Malformed},
            v \in {<<>>} \cup ({Absent, Ok(<<0, 0, 1>>), Malformed}
                               \X {Absent, Ok(<<0, 0, 1>>), Malformed})}

InitLoader ==
    /\ pc = "loader"
    /\ \E store \in LoaderStores : 
          input = [apiKey |-> "", envKey |-> "", offline |-> FALSE, store |-> store]
    /\ matcher = NoMatcher
    /\ ret = NoCall
    /\ served = EmptyMap
    /\ Locals
    /\ execMemo = EmptyMap
    /\ firstReport = NoReport

\* a call of LoadSecurityConcepts in the directory
CallLoadSecurityConcepts ==
    /\ ret.op = "new"
    /\ LET r == LoadSecurityConcepts(input.store)
       IN  /\ ret' = [op |-> "load", out |-> r]
           /\ securityConcepts' = r.concepts
    /\ UNCHANGED <<matcher, served, pc, input, variables, conceptMatches, queries,
                   queryTemplates, parameterizedQueries, standardResults,
                   templatedResults, compiled, execMemo, report, firstReport>>

NextLoader == CallLoadSecurityConcepts

SpecLoader == InitLoader /\ [][NextLoader]_vars

(***************************************************************************)
(* Claims about the concept loader.                                        *)
(***************************************************************************)
\* the file exists in the directory with this status
HasStatus(store, file, status) ==
    file \in DOMAIN store.files /\ store.files[file].status = status

\* the layer whose files are all there, in the order split layout, single file,
\* metadata layout, default catalog
FirstCompleteLayer(store) ==
    IF ~store.dir THEN "default"
    ELSE IF Exists(store, "concepts.toml") /\ Exists(store, "embeddings.toml") THEN "split"
    ELSE IF Exists(store, "security_concepts.toml") THEN "single"
    ELSE IF Exists(store, "concepts_metadata.toml") THEN "metadata"
    ELSE "default"

\* the first layer of which some file is there
FirstPresentLayer(store) ==
    IF ~store.dir THEN "default"
    ELSE IF Exists(store, "concepts.toml") \/ Exists(store, "embeddings.toml") THEN "split"
    ELSE IF Exists(store, "security_concepts.toml") THEN "single"
    ELSE IF Exists(store, "concepts_metadata.toml") THEN "metadata"
    ELSE "default"

\* the names of the concepts of a catalog, in order
NamesOf(concepts) == [i \in DOMAIN concepts |-> concepts[i].Name]

\* the layer a loaded catalog comes from: each layer's file lists other concepts
LayerOf(concepts) ==
    CASE NamesOf(concepts) = NamesOf(ConceptsToml) -> "split"
      [] NamesOf(concepts) = NamesOf(LegacyToml) -> "single"
      [] NamesOf(concepts) = NamesOf(MetadataToml) -> "metadata"
      [] NamesOf(concepts) = NamesOf(DefaultSecurityConcepts) -> "default"
      [] OTHER -> "none"

\* a file that the selected layer reads exists and is malformed
MalformedInLayer(store) ==
    LET layer == FirstCompleteLayer(store)
    IN  \/ layer = "split" /\ (\/ HasStatus(store, "concepts.toml", "malformed")
                               \/ HasStatus(store, "embeddings.toml", "malformed"))
        \/ layer = "single" /\ HasStatus(store, "security_concepts.toml", "malformed")
        \/ layer = "metadata" /\ HasStatus(store, "concepts_metadata.toml", "malformed")
        \/ layer = "metadata" /\ store.subdir
           /\ \E c \in DOMAIN store.vectorFiles : store.vectorFiles[c].status = "malformed"

C12_LaterLayerOnlyWhenEarlierAbsent ==
    (ret.op = "load" /\ ~ret.out.err) =>
        LayerOf(ret.out.concepts) = FirstPresentLayer(input.store)

\* C12 amended: the load uses one layer, the first complete one in that order, the
\* split layout being complete when both its files exist; it fails exactly when the
\* concepts file of that layer cannot be read or parsed
C12_FirstCompleteLayerIsUsed ==
    ret.op = "load" =>
        LET store == input.store
            layer == FirstCompleteLayer(store)
            main  == CASE layer = "split" -> "concepts.toml"
                       [] layer = "single" -> "security_concepts.toml"
                       [] layer = "metadata" -> "concepts_metadata.toml"
                       [] OTHER -> ""
        IN  /\ ret.out.err <=> (layer # "default" /\ ~HasStatus(store, main, "ok"))
            /\ ~ret.out.err => LayerOf(ret.out.concepts) = layer

\* C12 witness: the directory has a concepts file but no embeddings file, and both
\* legacy files; the single file was loaded
C12_Witness ==
    /\ ret.op = "load"
    /\ Exists(input.store, "concepts.toml")
    /\ ~Exists(input.store, "embeddings.toml")
    /\ HasStatus(input.store, "security_concepts.toml", "ok")
    /\ HasStatus(input.store, "concepts_metadata.toml", "ok")
    /\ ~ret.out.err
    /\ ret.out.concepts = LegacyToml

\* C13: without a concept-store file of any layout (no directory, or a directory
\* with none of the recognised files) the load returns no error and the default
\* catalog: not empty, with a concept named active, every vector empty
C13_DefaultCatalogWithoutFiles ==
    (ret.op = "load" /\ (~input.store.dir \/ DOMAIN input.store.files = {})) =>
        /\ ~ret.out.err
        /\ Len(ret.out.concepts) > 0
        /\ \E i \in DOMAIN ret.out.concepts : ret.out.concepts[i].Name = active
        /\ \A i \in DOMAIN ret.out.concepts : ret.out.concepts[i].Embedding = <<>>

\* C13 witness: a directory with a subdirectory of vector files and none of the
\* recognised files was loaded
C13_Witness ==
    /\ ret.op = "load"
    /\ input.store.dir /\ DOMAIN input.store.files = {} /\ input.store.subdir
    /\ ~ret.out.err

\* the vector the embeddings file has for a concept name, empty without an entry
VectorFor(entries, name) ==
    IF \E j \in DOMAIN entries : entries[j].ConceptName = name
    THEN entries[CHOOSE j \in DOMAIN entries : entries[j].ConceptName = name].Embedding
    ELSE <<>>

\* C14: in the split layout the catalog is the concepts of the concepts file, in
\* file order, each with the vector of the embeddings entry of its name or an empty
\* vector; an entry for a concept the concepts file does not have adds nothing and
\* is no error
C14_SplitLayoutMergesByName ==
    (/\ ret.op = "load"
     /\ HasStatus(input.store, "concepts.toml", "ok")
     /\ HasStatus(input.store, "embeddings.toml", "ok")) =>
        LET concepts == input.store.files["concepts.toml"].data
            entries  == input.store.files["embeddings.toml"].data
        IN  /\ ~ret.out.err
            /\ NamesOf(ret.out.concepts) = NamesOf(concepts)
            /\ \A i \in DOMAIN concepts :
                  ret.out.concepts[i].Embedding = VectorFor(entries, concepts[i].Name)

\* C14 witness: the embeddings file has an entry for locked and one for a concept
\* that the concepts file does not have, and none for active
C14_Witness ==
    /\ ret.op = "load"
    /\ HasStatus(input.store, "concepts.toml", "ok")
    /\ HasStatus(input.store, "embeddings.toml", "ok")
    /\ \E j \in DOMAIN input.store.files["embeddings.toml"].data :
          input.store.files["embeddings.toml"].data[j].ConceptName = <<"admin">>
    /\ ~ret.out.err
    /\ ret.out.concepts = <<[Name |-> active, Embedding |-> <<>>],
                            [Name |-> locked, Embedding |-> <<0, 1, 0>>]>>


(***************************************************************************)
(* Claims about failures of a run.                                         *)
(***************************************************************************)
\* a request that the last MatchVariables call made to the embedding service failed
RequestFailed ==
    \E i \in DOMAIN ret.invoked :
        /\ ret.invoked[i].strategy = "remote"
        /\ ret.answers[ret.invoked[i].text].status = "failed"

\* C15: under the remote strategy, when the embedding request for an identifier
\* fails, MatchVariables returns an error and no map, and the run ends with a fatal
\* error: no query is executed and no Finding is reported
C15_RemoteFailureIsFatal ==
    (ret.op = "match" /\ ~matcher.Offline /\ RequestFailed) =>
        /\ ret.err /\ ret.result = EmptyMap
        /\ conceptMatches = EmptyMap
        /\ pc = "exited"
        /\ report.kind = "fatal" /\ report.exit # 0 /\ report.findings = <<>>
        /\ compiled = <<>> /\ standardResults = <<>> /\ templatedResults = <<>>

\* C15 witness: the request for the first identifier gave a vector that matches a
\* concept, the request for the second failed, and the run has exited
C15_Witness ==
    /\ ret.op = "match" /\ ~matcher.Offline
    /\ Len(ret.invoked) = 2
    /\ ret.answers[ret.invoked[1].text] = [status |-> "ok", data |-> <<<<9, 1, 0>>>>]
    /\ ret.answers[ret.invoked[2].text].status = "failed"
    /\ matcher.Concepts = <<[Name |-> active, Embedding |-> <<1, 0, 0>>],
                            [Name |-> locked, Embedding |-> <<0, 1, 0>>]>>
    /\ pc = "exited" /\ report.kind = "fatal"


\* C16: under the offline strategy GetVariableEmbedding, MatchVariable and
\* MatchVariables return no error and make no request with the remote client (which
\* is nil), for every list of identifiers, the empty text included
C16_OfflineNeverFails ==
    (matcher.Offline /\ ret.op \in {"get", "match"}) =>
        /\ ~ret.err
        /\ matcher.OpenAI = "nil"
        /\ \A i \in DOMAIN ret.invoked : ret.invoked[i].strategy # "remote"

\* C16 witness: an offline MatchVariables call on a list with the empty text and
\* another text returned a map with a match of the other text
C16_Witness ==
    /\ matcher.Offline /\ ret.op = "match"
    /\ Len(ret.list) = 2
    /\ ret.list[1].Name = <<>>
    /\ ret.invoked = <<[strategy |-> "offline", text |-> <<>>],
                       [strategy |-> "offline", text |-> ret.list[2].Name]>>
    /\ ~ret.err
    /\ DOMAIN ret.result # {}


\* the findings of a result list that come from the query file f
FindingsOf(results, f) == {i \in DOMAIN results : results[i].QueryFile = f}

\* the findings a query text must give: one per match when it compiles, else none
ExpectedFindings(queryContent) ==
    LET e == execMemo[extractQueryPattern(queryContent)]
    IN  IF e.compiles THEN Len(e.rows) ELSE 0

\* C17: a query whose pattern does not compile, plain or parameterized, gives no
\* Finding, and every other query of the set is executed and its Findings are
\* returned; a compile failure does not make RunQueries fail or the run abort
C17_CompileFailureSkipsOneQuery ==
    /\ pc \in {"RunParameterized", "Report"} =>
          \A f \in DOMAIN queries :
              /\ \E i \in DOMAIN compiled :
                    compiled[i] = [file |-> f, pattern |-> extractQueryPattern(queries[f])]
              /\ Cardinality(FindingsOf(standardResults, f)) = ExpectedFindings(queries[f])
    /\ pc = "Report" =>
          \A k \in DOMAIN parameterizedQueries :
              LET q == parameterizedQueries[k]
              IN  /\ \E i \in DOMAIN compiled :
                        compiled[i] = [file |-> q.Template.Source,
                                       pattern |-> extractQueryPattern(q.ProcessedQuery)]
                  /\ Cardinality(FindingsOf(templatedResults, q.Template.Source))
                        = ExpectedFindings(q.ProcessedQuery)
    /\ (pc = "exited" /\ compiled # <<>>) =>
          /\ report.kind \in {"clean", "findings"}
          /\ report.findings = standardResults \o templatedResults

\* C17 witness: the first query executed did not compile, a later plain query gave
\* a Finding, a parameterized query did not compile, and the run printed its results
C17_Witness ==
    /\ pc = "exited" /\ report.kind = "findings"
    /\ Len(compiled) = 3
    /\ ~execMemo[compiled[1].pattern].compiles
    /\ standardResults # <<>>
    /\ Len(parameterizedQueries) = 1
    /\ ~execMemo[compiled[3].pattern].compiles
    /\ templatedResults = <<>>

\* C18: a run ends in one of three outcomes: a non-empty list of Findings, the
\* message "No vulnerabilities found.", or a fatal error message with a non-zero
\* exit code
C18_ThreeOutcomes ==
    pc = "exited" =>
        \/ report.kind = "findings" /\ report.findings # <<>>
        \/ report.kind = "clean" /\ report.findings = <<>>
        \/ report.kind = "fatal" /\ report.exit # 0

\* C18 amended: nothing is reported before a run ends, and it ends in one of four outcomes:
\* a non-empty list of Findings, the message "No vulnerabilities found.", a fatal
\* error message with a non-zero exit code, or, when the query directory holds no
\* query file, the message "No query files found" with exit code 0
C18_FourOutcomes ==
    /\ pc = "exited" =>
          \/ report.kind = "findings" /\ report.findings # <<>> /\ report.exit = 0
          \/ report.kind = "clean" /\ report.findings = <<>> /\ report.exit = 0
          \/ report.kind = "fatal" /\ report.exit # 0 /\ report.findings = <<>>
          \/ /\ report.kind = "noqueries" /\ report.exit = 0 /\ report.findings = <<>>
             /\ input.queryDir.readable /\ DOMAIN input.queryDir.files = {}
    /\ pc # "exited" => report = NoReport

\* C18 witness: a run on a query directory without query files has ended with the
\* message "No query files found" and exit code 0
C18_Witness ==
    /\ pc = "exited"
    /\ report.kind = "noqueries" /\ report.exit = 0
    /\ DOMAIN conceptMatches # {}


(***************************************************************************)
(* The variable extractor on its own: ExtractVariables on the identifier   *)
(* nodes of a parsed source, in document order.                            *)
(***************************************************************************)
\* the most identifier nodes of a source
MaxNodes == 3

\* the last row (0-based) of a source
MaxRow == 2

\* the identifier texts of a source
IdentifierTexts == {<<"A">>, <<"A", "B">>, <<"C">>}

\* the captures of (identifier) @id: nodes in document order, so the rows never
\* decrease
NodeLists ==
    {nodes \in SeqUpTo([text : IdentifierTexts, row : 0..MaxRow], MaxNodes) :
        \A i \in DOMAIN nodes : \A j \in DOMAIN nodes : i < j => nodes[i].row <= nodes[j].row}

InitExtract ==
    /\ pc = "extractor"
    /\ \E nodes \in NodeLists :
          input = [apiKey |-> "", envKey |-> "", offline |-> FALSE,
                   source |-> [readable |-> TRUE, parses |-> TRUE, nodes |-> nodes]]
    /\ matcher = NoMatcher
    /\ ret = NoCall
    /\ served = EmptyMap
    /\ Locals
    /\ execMemo = EmptyMap
    /\ firstReport = NoReport

\* a call of ExtractVariables on the parsed source
CallExtractVariables ==
    /\ ret.op = "new"
    /\ variables' = ExtractVariables(input.source.nodes)
    /\ ret' = [op |-> "extract"]
    /\ UNCHANGED <<matcher, served, pc, input, securityConcepts, conceptMatches, queries,
                   queryTemplates, parameterizedQueries, standardResults,
                   templatedResults, compiled, execMemo, report, firstReport>>

NextExtract == CallExtractVariables

SpecExtract == InitExtract /\ [][NextExtract]_vars

\* the position of the first node with this text
FirstOccurrence(nodes, text) ==
    CHOOSE k \in DOMAIN nodes :
        /\ nodes[k].text = text
        /\ \A l \in 1..(k - 1) : nodes[l].text # text

\* C19: ExtractVariables returns one record per distinct identifier text of the
\* source, each with the 1-based line of the first occurrence of the text, in the
\* order of the first occurrences
C19_OneRecordPerIdentifier ==
    ret.op = "extract" =>
        LET nodes == input.source.nodes
        IN  /\ \A i \in DOMAIN variables : \A j \in DOMAIN variables :
                  variables[i].Name = variables[j].Name => i = j
            /\ {variables[i].Name : i \in DOMAIN variables}
                  = {nodes[k].text : k \in DOMAIN nodes}
            /\ \A i \in DOMAIN variables :
                  variables[i].LineNumber
                      = nodes[FirstOccurrence(nodes, variables[i].Name)].row + 1
            /\ \A i \in DOMAIN variables : \A j \in DOMAIN variables :
                  i < j => FirstOccurrence(nodes, variables[i].Name)
                              < FirstOccurrence(nodes, variables[j].Name)

\* C19 witness: an identifier occurs twice, on different lines and with another
\* identifier in between, and the extractor has returned two records
C19_Witness ==
    /\ ret.op = "extract"
    /\ Len(input.source.nodes) = 3
    /\ input.source.nodes[1].text = input.source.nodes[3].text
    /\ input.source.nodes[1].text # input.source.nodes[2].text
    /\ input.source.nodes[1].row < input.source.nodes[3].row
    /\ Len(variables) = 2
    /\ variables[1].LineNumber = input.source.nodes[1].row + 1


(***************************************************************************)
(* CosineSimilarity on its own, called on two vectors in either order.     *)
(***************************************************************************)
\* the most components of a vector
MaxDim == 2

\* the components of a vector
Components == {-1, 0, 1, 2}

\* the vectors CosineSimilarity is called on, the empty and the zero ones included
TestVectors == SeqUpTo(Components, MaxDim)

InitCosine ==
    /\ pc = "cosine"
    /\ \E a \in TestVectors, b \in TestVectors :
          input = [apiKey |-> "", envKey |-> "", offline |-> FALSE, a |-> a, b |-> b]
    /\ matcher = NoMatcher
    /\ ret = [op |-> "cosine", calls |-> <<>>]
    /\ served = EmptyMap
    /\ Locals
    /\ execMemo = EmptyMap
    /\ firstReport = NoReport

\* a call CosineSimilarity(a, b) or CosineSimilarity(b, a); two calls are made
CallCosineSimilarity ==
    /\ pc = "cosine"
    /\ Len(ret.calls) < 2
    /\ \E args \in {<<input.a, input.b>>, <<input.b, input.a>>} :
          ret' = [ret EXCEPT !.calls =
                     Append(@, [a |-> args[1], b |-> args[2],
                                score |-> CosineSimilarity(args[1], args[2])])]
    /\ UNCHANGED <<matcher, served, pipelineVars>>

NextCosine == CallCosineSimilarity

SpecCosine == InitCosine /\ [][NextCosine]_vars

\* C21: CosineSimilarity returns exactly 0 whenever either vector is empty or the
\* two vectors have different lengths
C21_ZeroOnEmptyOrMismatch ==
    pc = "cosine" =>
        \A i \in DOMAIN ret.calls :
            (\/ Len(ret.calls[i].a) = 0
             \/ Len(ret.calls[i].b) = 0
             \/ Len(ret.calls[i].a) # Len(ret.calls[i].b)) =>
                /\ ret.calls[i].score = ZeroScore
                /\ ret.calls[i].score.dot = 0

\* C21 witness: CosineSimilarity was called with an empty vector, and with two
\* non-zero vectors of different lengths whose common prefix is not orthogonal
C21_Witness ==
    /\ pc = "cosine"
    /\ Len(ret.calls) = 2
    /\ \/ /\ ret.calls[1].a = <<>> /\ ret.calls[1].b = <<1, 2>>
          /\ ret.calls[2].a = <<1, 2>> /\ ret.calls[2].b = <<>>
       \/ /\ ret.calls[1].a = <<2>> /\ ret.calls[1].b = <<1, 2>>
          /\ ret.calls[2].a = <<1, 2>> /\ ret.calls[2].b = <<2>>
    /\ ret.calls[1].score = ZeroScore /\ ret.calls[2].score = ZeroScore

\* C22: CosineSimilarity is symmetric: a call on (a, b) and a call on (b, a) return
\* the same score, whatever the lengths of a and b
C22_Symmetric ==
    pc = "cosine" =>
        \A i \in DOMAIN ret.calls : \A j \in DOMAIN ret.calls :
            (ret.calls[i].a = ret.calls[j].b /\ ret.calls[i].b = ret.calls[j].a) =>
                ret.calls[i].score = ret.calls[j].score

\* C22 witness: two different vectors of the same length and of different norms
\* were compared in both orders, with a score that is not 0
C22_Witness ==
    /\ pc = "cosine"
    /\ Len(ret.calls) = 2
    /\ ret.calls[1].a = <<1, 2>> /\ ret.calls[1].b = <<1, 0>>
    /\ ret.calls[2].a = <<1, 0>> /\ ret.calls[2].b = <<1, 2>>
    /\ ret.calls[1].score.dot # 0
    /\ ret.calls[1].score = ret.calls[2].score


(***************************************************************************)
(* SaveEmbeddingsFile and LoadEmbeddingsFile (embedding package).  The     *)
(* file is the text the TOML encoder writes: a list of lines, each a key   *)
(* with an encoded value.  A vector component is a number of tenths.       *)
(***************************************************************************)
\* the most entries of a saved list
MaxEntries == 2

DigitChar(d) ==
    CASE d = 0 -> "0" [] d = 1 -> "1" [] d = 2 -> "2" [] d = 3 -> "3" [] d = 4 -> "4"
      [] d = 5 -> "5" [] d = 6 -> "6" [] d = 7 -> "7" [] d = 8 -> "8" [] d = 9 -> "9"

DigitValue(ch) == CHOOSE d \in 0..9 : DigitChar(d) = ch

RECURSIVE NatDigits(_)
\* the decimal digits of a natural number
NatDigits(n) ==
    IF n < 10 THEN <<DigitChar(n)>> ELSE NatDigits(n \div 10) \o <<DigitChar(n % 10)>>

RECURSIVE ParseNat(_)
\* the natural number of a string of digits
ParseNat(digits) ==
    IF digits = <<>> THEN 0
    ELSE 10 * ParseNat(SubSeq(digits, 1, Len(digits) - 1)) + DigitValue(digits[Len(digits)])

\* mutant of FormatFloat: the fraction is not written
FormatFloatNoFraction(v) ==
    LET m == IF v < 0 THEN -v ELSE v
    IN  (IF v < 0 THEN <<"-">> ELSE <<>>) \o NatDigits(m \div 10) \o <<".", "0">>

\* the encoder's text of a float32: sign, integer digits, ".", fraction digit
\* ("1.0" for a whole number, the shortest decimal otherwise)
FormatFloat(v) ==
    LET m == IF v < 0 THEN -v ELSE v
    IN  (IF v < 0 THEN <<"-">> ELSE <<>>)
        \o NatDigits(m \div 10) \o <<".">> \o <<DigitChar(m % 10)>>

\* the decoder's value of the text of a float
ParseFloat(text) ==
    LET neg  == text # <<>> /\ Head(text) = "-"
        body == IF neg THEN Tail(text) ELSE text
        dot  == CHOOSE i \in 1..(Len(body) + 1) :
                    /\ (i <= Len(body) => body[i] = ".")
                    /\ \A j \in 1..(i - 1) : body[j] # "."
        whole == ParseNat(SubSeq(body, 1, dot - 1))
        frac  == IF dot < Len(body) THEN DigitValue(body[dot + 1]) ELSE 0
        m     == 10 * whole + frac
    IN  IF neg THEN -m ELSE m

\* a string with a single quote cannot be written as a literal string
needsQuoting(v) == \E i \in DOMAIN v : v[i] = "'"

RECURSIVE Escape(_)
\* the contents of a basic string: backslash and double quote are escaped
Escape(v) ==
    IF v = <<>> THEN <<>>
    ELSE IF Head(v) \in {"\"", "\\"} THEN <<"\\", Head(v)>> \o Escape(Tail(v))
    ELSE <<Head(v)>> \o Escape(Tail(v))

RECURSIVE Unescape(_)
\* the value of the contents of a basic string, up to its closing double quote
Unescape(text) ==
    IF text = <<>> THEN <<>>
    ELSE IF Head(text) = "\"" THEN <<>>
    ELSE IF Head(text) = "\\" /\ Len(text) >= 2
         THEN <<text[2]>> \o Unescape(SubSeq(text, 3, Len(text)))
    ELSE <<Head(text)>> \o Unescape(Tail(text))

RECURSIVE UpToQuote(_)
\* the contents of a literal string, up to its closing single quote
UpToQuote(text) ==
    IF text = <<>> THEN <<>>
    ELSE IF Head(text) = "'" THEN <<>>
    ELSE <<Head(text)>> \o UpToQuote(Tail(text))

\* the encoder's text of a string: a literal string, or a basic string when the
\* string needs quoting
encodeString(v) ==
    IF needsQuoting(v) THEN <<"\"">> \o Escape(v) \o <<"\"">>
    ELSE <<"'">> \o v \o <<"'">>

\* the decoder's value of the text of a string
decodeString(text) ==
    IF text = <<>> THEN <<>>
    ELSE IF Head(text) = "'" THEN UpToQuote(Tail(text))
    ELSE Unescape(Tail(text))

RECURSIVE EncodeEntries(_)
\* one [[embeddings]] table per entry, with concept_name and embedding.vector
EncodeEntries(embeddings) ==
    IF embeddings = <<>> THEN <<>>
    ELSE LET entry == Head(embeddings)
         IN  <<[kind |-> "tables", key |-> "embeddings", text |-> <<>>, items |-> <<>>],
               [kind |-> "string", key |-> "concept_name",
                text |-> encodeString(entry.ConceptName), items |-> <<>>],
               [kind |-> "table", key |-> "embeddings.embedding", text |-> <<>>,
                items |-> <<>>],
               [kind |-> "floats", key |-> "vector", text |-> <<>>,
                items |-> [i \in DOMAIN entry.Embedding |-> FormatFloat(entry.Embedding[i])]]>>
             \o EncodeEntries(Tail(embeddings))

\* toml.Encoder.Encode of the config: embeddings = [] for an empty list
Encode(embeddings) ==
    IF embeddings = <<>>
    THEN <<[kind |-> "array", key |-> "embeddings", text |-> <<>>, items |-> <<>>]>>
    ELSE EncodeEntries(embeddings)

RECURSIVE UnmarshalLines(_, _)
\* toml.Unmarshal into the config: a [[embeddings]] line opens an entry, the keys
\* after it fill the entry
UnmarshalLines(lines, entries) ==
    IF lines = <<>> THEN entries
    ELSE LET line == Head(lines)
             n    == Len(entries)
         IN  UnmarshalLines(Tail(lines),
                 CASE line.kind = "tables" ->
                          Append(entries, [ConceptName |-> <<>>, Embedding |-> <<>>])
                   [] line.kind = "string" /\ n > 0 ->
                          [entries EXCEPT ![n].ConceptName = decodeString(line.text)]
                   [] line.kind = "floats" /\ n > 0 ->
                          [entries EXCEPT ![n].Embedding =
                              [i \in DOMAIN line.items |-> ParseFloat(line.items[i])]]
                   [] OTHER -> entries)

Unmarshal(lines) == UnmarshalLines(lines, <<>>)

\* no file at embeddings.toml
NoFile == <<[kind |-> "none", key |-> "", text |-> <<>>, items |-> <<>>]>>

\* SaveEmbeddingsFile: an error when the directory or the file cannot be created,
\* else the file holds the encoded config
SaveEmbeddingsFile(embeddings, writable, disk) ==
    IF ~writable THEN [err |-> TRUE, disk |-> disk]
    ELSE [err |-> FALSE, disk |-> Encode(embeddings)]

\* LoadEmbeddingsFile: an error when the file cannot be read, else the entries
LoadEmbeddingsFile(disk) ==
    IF disk = NoFile THEN [err |-> TRUE, entries |-> <<>>]
    ELSE [err |-> FALSE, entries |-> Unmarshal(disk)]

\* concept names: plain, with a single quote, with a double quote and a backslash
SavedNames == {<<"a", "b">>, <<"a", "'", "b">>, <<"\"", "a", "\\", "'">>, <<>>}

\* vectors in tenths: none, 0.5, (-1.0, 1.2), (0.0, 0.3, 12.0)
SavedVectors == {<<>>, <<5>>, <<-10, 12>>, <<0, 3, 120>>}

\* the lists of entries handed to SaveEmbeddingsFile
SavedLists ==
    SeqUpTo([ConceptName : SavedNames, Embedding : SavedVectors], MaxEntries)

InitSave ==
    /\ pc = "embeddings"
    /\ \E embeddings \in SavedLists, writable \in BOOLEAN :
          input = [apiKey |-> "", envKey |-> "", offline |-> FALSE,
                   embeddings |-> embeddings, writable |-> writable, disk |-> NoFile]
    /\ matcher = NoMatcher
    /\ ret = NoCall
    /\ served = EmptyMap
    /\ Locals
    /\ execMemo = EmptyMap
    /\ firstReport = NoReport

\* a call of SaveEmbeddingsFile on the list
CallSaveEmbeddingsFile ==
    /\ pc = "embeddings"
    /\ ret.op = "new"
    /\ LET r == SaveEmbeddingsFile(input.embeddings, input.writable, input.disk)
       IN  /\ input' = [input EXCEPT !.disk = r.disk]
           /\ ret' = [op |-> "save", err |-> r.err, entries |-> <<>>, saved |-> ~r.err]
    /\ UNCHANGED <<matcher, served, pc, securityConcepts, variables, conceptMatches,
                   queries, queryTemplates, parameterizedQueries, standardResults,
                   templatedResults, compiled, execMemo, report, firstReport>>

\* a call of LoadEmbeddingsFile on the path of the file
CallLoadEmbeddingsFile ==
    /\ pc = "embeddings"
    /\ ret.op \in {"new", "save"}
    /\ LET r == LoadEmbeddingsFile(input.disk)
       IN  ret' = [op |-> "load", err |-> r.err, entries |-> r.entries,
                   saved |-> ret.op = "save" /\ ~ret.err]
    /\ UNCHANGED <<matcher, served, pipelineVars>>

NextSave == CallSaveEmbeddingsFile \/ CallLoadEmbeddingsFile

SpecSave == InitSave /\ [][NextSave]_vars

AnnotatedNames ==
    {parameterizedQueries[k].Template.Name \o " (parametrized)" :
        k \in DOMAIN parameterizedQueries}

\* the Finding is one of a plain query: its file declares no concepts
IsPlainFinding(finding) ==
    /\ finding.QueryFile \in DOMAIN queryTemplates
    /\ Len(queryTemplates[finding.QueryFile].Concepts) = 0

\* C24: in the final report the Findings of plain queries precede the Findings of
\* parameterized queries, and every Finding of a parameterized query has the name
\* of its template followed by " (parametrized)" and the template's source file as
\* its query file
C24_PlainBeforeAnnotatedParameterized ==
    (pc = "exited" /\ report.kind \in {"findings", "clean"}) =>
        LET n == Len(standardResults)
        IN  /\ report.findings = standardResults \o templatedResults
            /\ \A i \in DOMAIN report.findings :
                  IsPlainFinding(report.findings[i]) => i <= n
            /\ \A j \in DOMAIN report.findings :
                  j > n =>
                      /\ ~IsPlainFinding(report.findings[j])
                      /\ \E k \in DOMAIN parameterizedQueries :
                            /\ report.findings[j].QueryName
                                  = parameterizedQueries[k].Template.Name \o " (parametrized)"
                            /\ report.findings[j].QueryFile
                                  = parameterizedQueries[k].Template.Source
            /\ \A i \in DOMAIN report.findings :
                  i <= n => report.findings[i].QueryName \notin AnnotatedNames

\* C24 witness: the report holds a Finding of a plain query and, after it, a
\* Finding of a parameterized query with the annotation
C24_Witness ==
    /\ pc = "exited" /\ report.kind = "findings"
    /\ \E i \in DOMAIN report.findings : IsPlainFinding(report.findings[i])
    /\ templatedResults # <<>>
    /\ report.findings[Len(report.findings)].QueryName = "Active (parametrized)"
    /\ report.findings[Len(report.findings)].QueryFile = "active.scm"


\* the stages in the order Parse, Extract, BuildConceptRegistry, MatchConcepts (with
\* the set-up of the matcher), LoadQueries (with the parsing of the templates),
\* Parameterize, Execute (plain, then parameterized), Aggregate and Report
ClaimedStages ==
    <<"ReadSource", "Extract", "LoadConcepts", "SetupMatcher", "MatchConcepts",
      "ReadQueries", "ParseTemplates", "Parameterize", "RunStandard",
      "RunParameterized", "Report", "exited">>

\* the stages in the order of the statements of analyzeSmartMain
CodeStages ==
    <<"LoadConcepts", "ReadSource", "Extract", "SetupMatcher", "MatchConcepts",
      "ReadQueries", "ParseTemplates", "Parameterize", "RunStandard",
      "RunParameterized", "Report", "exited">>

\* the place of a stage in an order
PositionIn(order, stage) == CHOOSE i \in DOMAIN order : order[i] = stage

\* C25: the stages of a run occur in the order Parse, Extract,
\* BuildConceptRegistry, MatchConcepts, LoadQueries, Parameterize, Execute,
\* Aggregate, Report: a run starts with Parse, each step of a run goes from a stage
\* to the next one of the order or ends the run, and no stage is revisited
C25_ClaimedStageOrder ==
    [][(pc \in Range(ClaimedStages) /\ pc # "exited" /\ pc' # pc) =>
          \/ pc' = "exited"
          \/ PositionIn(ClaimedStages, pc') = PositionIn(ClaimedStages, pc) + 1]_vars

\* C25 amended: the stages of a run occur in the order BuildConceptRegistry,
\* Parse, Extract, MatchConcepts, LoadQueries, Parameterize, Execute, Aggregate,
\* Report: each step of a run goes from a stage to the next one of the order or
\* ends the run, and no stage is revisited
C25_CodeStageOrder ==
    [][(pc \in Range(CodeStages) /\ pc # "exited" /\ pc' # pc) =>
          \/ pc' = "exited"
          \/ PositionIn(CodeStages, pc') = PositionIn(CodeStages, pc) + 1]_vars

\* C25 witness: a run went through every stage and printed Findings of plain and
\* of parameterized queries; the concepts came from files read in the first stage
C25_Witness ==
    /\ pc = "exited" /\ report.kind = "findings"
    /\ securityConcepts # <<>> /\ variables # <<>>
    /\ DOMAIN conceptMatches # {} /\ DOMAIN queries # {}
    /\ parameterizedQueries # <<>>
    /\ standardResults # <<>> /\ templatedResults # <<>>


\* no key by flag, none in the environment, and offline mode not selected
NoCredential == input.apiKey = "" /\ input.envKey = "" /\ ~input.offline

\* C26: when no API key is given by flag or environment and offline mode is not
\* selected, the run ends in a fatal error at startup: the target file is never
\* parsed, no identifier is extracted, and no Finding is reported
C26_NoCredentialFatalAtStartup ==
    (pc \in Range(CodeStages) /\ NoCredential) =>
        /\ pc \notin {"Extract", "SetupMatcher", "MatchConcepts", "ReadQueries",
                      "ParseTemplates", "Parameterize", "RunStandard",
                      "RunParameterized", "Report"}
        /\ variables = <<>>
        /\ pc = "exited" =>
              report.kind = "fatal" /\ report.exit # 0 /\ report.findings = <<>>


(***************************************************************************)
(* Claims about the cache of the matcher.                                  *)
(***************************************************************************)
\* C27: when the cache holds an entry for the text, GetVariableEmbedding returns
\* the cached vector without an error, in offline and in remote mode, invokes
\* neither the offline derivation nor the remote client, and leaves the cache as
\* it was
C27_CacheHitReturnsCachedVector ==
    [][(ret'.op = "get" /\ ret'.text \in DOMAIN matcher.Cache) =>
          /\ ~ret'.err
          /\ ret'.Vector = matcher.Cache[ret'.text]
          /\ ret'.invoked = <<>>
          /\ matcher'.Cache = matcher.Cache]_vars

\* C27 witness: in offline mode a call returned a cached vector that is not the
\* offline vector of the text
C27_Witness ==
    /\ ret.op = "get" /\ matcher.Offline
    /\ ret.invoked = <<>>
    /\ ret.text \in DOMAIN matcher.Cache
    /\ ret.Vector = matcher.Cache[ret.text]
    /\ ret.Vector # getOfflineEmbedding(ret.text)

\* C30: in remote mode a failed request leaves the cache unchanged, a successful
\* request on a cache miss adds exactly one entry, keyed by the text and holding
\* the returned vector, and no call of GetVariableEmbedding changes or removes an
\* entry the cache had
C30_CacheOnlyGrowsOnSuccess ==
    [][ret'.op = "get" =>
          /\ \A n \in DOMAIN matcher.Cache :
                n \in DOMAIN matcher'.Cache /\ matcher'.Cache[n] = matcher.Cache[n]
          /\ (~matcher.Offline /\ ret'.err) => matcher'.Cache = matcher.Cache
          /\ (~matcher.Offline /\ ~ret'.err /\ ret'.text \notin DOMAIN matcher.Cache) =>
                /\ DOMAIN matcher'.Cache = DOMAIN matcher.Cache \cup {ret'.text}
                /\ matcher'.Cache[ret'.text] = ret'.Vector
                /\ ret'.invoked = <<[strategy |-> "remote", text |-> ret'.text]>>]_vars

\* C30 witness: in remote mode the cache holds two entries, the one of the last
\* call, which made a request, and an older one
C30_Witness ==
    /\ ret.op = "get" /\ ~matcher.Offline /\ ~ret.err
    /\ ret.invoked # <<>>
    /\ Cardinality(DOMAIN matcher.Cache) = 2
    /\ matcher.Cache[ret.text] = ret.Vector


(***************************************************************************)
(* Claims about catalogs without usable vectors and about the binding.     *)
(***************************************************************************)
\* every reference vector of the catalog is empty or of another length than the
\* identifier vectors: those of getOfflineEmbedding offline, those the service
\* returned otherwise
MismatchedCatalog ==
    \A k \in DOMAIN matcher.Concepts :
        LET e == matcher.Concepts[k].Embedding
        IN  \/ Len(e) = 0
            \/ matcher.Offline /\ Len(e) # OfflineDim
            \/ ~matcher.Offline /\ \A n \in DOMAIN matcher.Cache : Len(matcher.Cache[n]) # Len(e)

\* C28: when every concept of the catalog has a reference vector that is empty or
\* of another length than the identifier vectors, MatchVariables returns an empty
\* map, and ProcessTemplatedQueries makes no parameterized query of any template
C28_NoUsableVectorNoParameterizedQuery ==
    (pc \in Range(CodeStages) /\ ret.op = "match" /\ MismatchedCatalog) =>
        /\ ret.result = EmptyMap
        /\ conceptMatches = EmptyMap
        /\ parameterizedQueries = <<>>
        /\ templatedResults = <<>>

\* C28 witness: an offline run with reference vectors of two components, and a
\* remote run with the built-in catalog, have matched identifiers, met a template
\* with a required concept, and ended with a report
C28_Witness ==
    /\ pc = "exited" /\ report.kind \in {"clean", "findings"}
    /\ ret.op = "match" /\ ~ret.err /\ ret.list # <<>>
    /\ MismatchedCatalog
    /\ \/ matcher.Offline /\ matcher.Concepts[1].Embedding = <<1, 0>>
       \/ ~matcher.Offline /\ matcher.Concepts = DefaultSecurityConcepts
                           /\ DOMAIN matcher.Cache # {}
    /\ \E f \in DOMAIN queryTemplates : Len(queryTemplates[f].Concepts) > 0
    /\ parameterizedQueries = <<>>


\* the score of the variable with the concept named c reaches the threshold
ReachesThreshold(variable, c) ==
    \E k \in DOMAIN matcher.Concepts :
        /\ matcher.Concepts[k].Name = c
        /\ ScoreGE(CosineSimilarity(EmbeddingOf(variable.Name),
                                    matcher.Concepts[k].Embedding),
                   matcher.SimilarityThreshold)

RECURSIVE VariablesReaching(_, _)
\* the variables of the list whose score with c reaches the threshold, in the order
\* of the list
VariablesReaching(list, c) ==
    IF list = <<>> THEN <<>>
    ELSE (IF ReachesThreshold(Head(list), c) THEN <<Head(list)>> ELSE <<>>)
         \o VariablesReaching(Tail(list), c)

====
